---------------------------- MODULE Spec2Model ----------------------------
(***************************************************************************)
(* ChatBox-Gin: the inbound message pipeline (messageService.ProcessInbound *)
(* over the GORM repositories, the bot responder and the channel registry)  *)
(* and the agent endpoints that write the same conversation rows.          *)
(*                                                                         *)
(* Every repository call is one atomic step (one SQL statement); the code  *)
(* between two repository calls of a delivery works on the delivery's own  *)
(* in-memory copies, so deliveries interleave between repository calls.    *)
(* Text is a sequence of characters, so that lower-casing and substring    *)
(* search are computed and not assumed.                                    *)
(***************************************************************************)
EXTENDS Naturals, Sequences, FiniteSets

\* ------------------------------------------------------------------ bounds
\* Deliveries (ProcessInbound calls) made in one behaviour.
MaxCalls == 2
\* Deliveries made in one behaviour of overlapping deliveries of one sender.
MaxBurst == 2
\* Incidents in one behaviour: repository / provider failures injected and
\* agent requests (ToggleBot, PATCH conversation) made.
MaxIncidents == 1

\* -------------------------------------------------------------------- text
\* strings.ToLower on the characters the model uses.
LowerChar(ch) ==
    CASE ch = "H" -> "h"
      [] ch = "A" -> "a"
      [] ch = "E" -> "e"
      [] ch = "L" -> "l"
      [] ch = "P" -> "p"
      [] ch = "I" -> "i"
      [] OTHER -> ch

ToLower(s) == [i \in 1..Len(s) |-> LowerChar(s[i])]

\* strings.Contains(s, sub)
Contains(s, sub) ==
    \E i \in 0..(Len(s) - Len(sub)) :
        \A j \in 1..Len(sub) : s[i + j] = sub[j]

\* The empty string.
Empty == << >>


\* ------------------------------------------------------------------- rules
\* Byte order of the characters that occur in "HH:mm" strings.
CharRank(ch) ==
    CASE ch = "0" -> 0 [] ch = "1" -> 1 [] ch = "2" -> 2 [] ch = "3" -> 3
      [] ch = "4" -> 4 [] ch = "5" -> 5 [] ch = "6" -> 6 [] ch = "7" -> 7
      [] ch = "8" -> 8 [] ch = "9" -> 9 [] OTHER -> 10

\* Go's a <= b on strings: bytewise lexicographic order.
StrLE(a, b) ==
    \/ \E i \in 1..Len(a) :
          /\ i <= Len(b)
          /\ \A j \in 1..(i - 1) : a[j] = b[j]
          /\ CharRank(a[i]) < CharRank(b[i])
    \/ /\ Len(a) <= Len(b)
       /\ \A j \in 1..Len(a) : a[j] = b[j]

StrGT(a, b) == ~StrLE(a, b)

IsKeywordTrigger(r) == r.trigger = "keyword"
IsTimeWindowTrigger(r) == r.trigger = "time_window"
IsFallbackTrigger(r) == r.trigger = "fallback"
IsHandoffResponse(r) == r.rtype = "handoff"

\* A comparison that lower-cases neither side.
KeywordHitsCased(r, content, k) ==
    LET matchType == IF r.matchType = "" THEN "contains" ELSE r.matchType
    IN  CASE matchType = "exact" -> content = k
          [] matchType = "contains" -> Contains(content, k)
          [] OTHER -> FALSE

\* Rule.MatchesKeyword: case-insensitive, "exact" or "contains" (the default).
KeywordHits(r, content, k) ==
    LET matchType == IF r.matchType = "" THEN "contains" ELSE r.matchType
    IN  CASE matchType = "exact" -> ToLower(content) = ToLower(k)
          [] matchType = "contains" -> Contains(ToLower(content), ToLower(k))
          [] OTHER -> FALSE

MatchesKeyword(r, content) ==
    /\ IsKeywordTrigger(r)
    /\ \E i \in 1..Len(r.keywords) : KeywordHits(r, content, r.keywords[i])

\* An instant is [weekday, minute]: the UTC weekday (0 = Sunday) and the
\* minute of the UTC day.
MinutesPerDay == 1440

\* time.LoadLocation: minutes east of UTC of the zones the model knows; the
\* empty name is UTC, and a name that cannot be loaded falls back to UTC.
ZoneOffset(tz) ==
    CASE tz = "Asia/Ho_Chi_Minh" -> 420
      [] tz = "Asia/Tokyo" -> 540
      [] OTHER -> 0

\* now.In(loc)
LocalNow(now, tz) ==
    LET total == now.minute + ZoneOffset(tz)
    IN  IF total >= MinutesPerDay
        THEN [weekday |-> (now.weekday + 1) % 7, minute |-> total - MinutesPerDay]
        ELSE [weekday |-> now.weekday, minute |-> total]

\* localNow.Format("15:04")
Digit(n) == <<"0", "1", "2", "3", "4", "5", "6", "7", "8", "9">>[n + 1]
Format1504(minute) ==
    LET h == minute \div 60
        m == minute % 60
    IN  <<Digit(h \div 10), Digit(h % 10), ":", Digit(m \div 10), Digit(m % 10)>>

\* A window that never spans midnight.
MatchesSameDayWindow(r, now) ==
    LET localNow == LocalNow(now, r.timezone)
        currentTime == Format1504(localNow.minute)
    IN  /\ IsTimeWindowTrigger(r)
        /\ (r.days # {} => localNow.weekday \in r.days)
        /\ StrLE(r.startTime, currentTime)
        /\ StrLE(currentTime, r.endTime)

\* Rule.MatchesTimeWindow at the instant now.
MatchesTimeWindow(r, now) ==
    LET localNow == LocalNow(now, r.timezone)
        currentTime == Format1504(localNow.minute)
    IN  /\ IsTimeWindowTrigger(r)
        /\ (r.days # {} => localNow.weekday \in r.days)
        /\ IF StrGT(r.startTime, r.endTime)
           THEN StrLE(r.startTime, currentTime) \/ StrLE(currentTime, r.endTime)
           ELSE StrLE(r.startTime, currentTime) /\ StrLE(currentTime, r.endTime)

\* ruleEngine.matchKeyword: the keyword reported for a matching rule is the
\* first configured keyword k with rule.MatchesKeyword(k), the keyword being
\* passed where the content is expected.
MatchedKeywordOf(r) ==
    IF \E i \in 1..Len(r.keywords) : MatchesKeyword(r, r.keywords[i])
    THEN r.keywords[CHOOSE i \in 1..Len(r.keywords) :
                       /\ MatchesKeyword(r, r.keywords[i])
                       /\ \A j \in 1..(i - 1) : ~MatchesKeyword(r, r.keywords[j])]
    ELSE Empty

NoMatch == [matched |-> FALSE, rule |-> 0, keyword |-> Empty, confidence |-> 0]

\* First pass of ruleEngine.Match: does rule i trigger?
Triggers(r, content, now) ==
    /\ r.active
    /\ \/ r.trigger = "keyword" /\ MatchesKeyword(r, content)
       \/ r.trigger = "time_window" /\ MatchesTimeWindow(r, now)

\* An engine that sorts before it matches: the triggering rule of highest
\* priority wins.
MatchByPriority(rules, content, now) ==
    LET first  == {i \in 1..Len(rules) : Triggers(rules[i], content, now)}
        second == {i \in 1..Len(rules) :
                      rules[i].trigger = "fallback" /\ rules[i].active}
        Min(S) == CHOOSE i \in S : \A j \in S : i <= j
        Top(S) == Min({i \in S : \A j \in S :
                                   rules[j].priority <= rules[i].priority})
    IN  IF first # {}
        THEN [matched |-> TRUE, rule |-> Top(first),
              keyword |-> IF rules[Top(first)].trigger = "keyword"
                          THEN MatchedKeywordOf(rules[Top(first)]) ELSE Empty,
              confidence |-> 10]
        ELSE IF second # {}
        THEN [matched |-> TRUE, rule |-> Min(second), keyword |-> Empty,
              confidence |-> 5]
        ELSE NoMatch

\* An engine whose second pass takes the fallback of highest priority.
MatchBestFallback(rules, content, now) ==
    LET first  == {i \in 1..Len(rules) : Triggers(rules[i], content, now)}
        second == {i \in 1..Len(rules) :
                      rules[i].trigger = "fallback" /\ rules[i].active}
        Min(S) == CHOOSE i \in S : \A j \in S : i <= j
        Top(S) == Min({i \in S : \A j \in S :
                                   rules[j].priority <= rules[i].priority})
    IN  IF first # {}
        THEN [matched |-> TRUE, rule |-> Min(first),
              keyword |-> IF rules[Min(first)].trigger = "keyword"
                          THEN MatchedKeywordOf(rules[Min(first)]) ELSE Empty,
              confidence |-> 10]
        ELSE IF second # {}
        THEN [matched |-> TRUE, rule |-> Top(second), keyword |-> Empty,
              confidence |-> 5]
        ELSE NoMatch

\* ruleEngine.Match over the rules in the order given. Confidence is in
\* tenths (10 = 1.0, 5 = 0.5).
Match(rules, content, now) ==
    LET first  == {i \in 1..Len(rules) : Triggers(rules[i], content, now)}
        second == {i \in 1..Len(rules) :
                      rules[i].trigger = "fallback" /\ rules[i].active}
        Min(S) == CHOOSE i \in S : \A j \in S : i <= j
    IN  IF first # {}
        THEN [matched |-> TRUE, rule |-> Min(first),
              keyword |-> IF rules[Min(first)].trigger = "keyword"
                          THEN MatchedKeywordOf(rules[Min(first)]) ELSE Empty,
              confidence |-> 10]
        ELSE IF second # {}
        THEN [matched |-> TRUE, rule |-> Min(second), keyword |-> Empty,
              confidence |-> 5]
        ELSE NoMatch

\* responseBuilder.BuildFromRule
\* The default handoff message, written without its diacritics.
DefaultHandoffMessage ==
    <<"D", "a", "n", "g", " ", "c", "h", "u", "y", "e", "n", " ", "b", "a",
      "n", " ", "d", "e", "n", " ", "n", "h", "a", "n", " ", "v", "i", "e",
      "n", " ", "h", "o", " ", "t", "r", "o", ".", ".", ".">>

\* A builder that reads the handoff message field for every response type.
BuildFromMessage(r, recipientID) ==
    [to |-> recipientID, contentType |-> "text", content |-> r.message]

\* A builder without the default handoff message.
BuildWithoutDefault(r, recipientID) ==
    [to |-> recipientID,
     contentType |-> "text",
     content |-> CASE r.rtype = "text" -> r.text
                   [] r.rtype = "template" -> r.text
                   [] r.rtype = "handoff" -> r.message
                   [] OTHER -> Empty]

BuildFromRule(r, recipientID) ==
    [to |-> recipientID,
     contentType |-> "text",
     content |-> CASE r.rtype = "text" -> r.text
                   [] r.rtype = "template" -> r.text
                   [] r.rtype = "handoff" ->
                        IF r.message = Empty THEN DefaultHandoffMessage
                        ELSE r.message
                   [] OTHER -> Empty]


\* ---------------------------------------------------------- workspace data
\* The rules of the workspace as ruleRepo.FindActiveByWorkspace orders them
\* (priority DESC).
Rules ==
    << [active |-> TRUE, trigger |-> "keyword", keywords |-> << <<"h", "i">> >>,
        matchType |-> "contains", rtype |-> "text",
        text |-> <<"H", "e", "l", "l", "o">>, message |-> Empty,
        days |-> {}, startTime |-> Empty, endTime |-> Empty,
        timezone |-> "", priority |-> 100],
       [active |-> TRUE, trigger |-> "keyword",
        keywords |-> << <<"a", "g", "e", "n", "t">> >>,
        matchType |-> "", rtype |-> "handoff",
        text |-> Empty, message |-> <<"o", "k">>,
        days |-> {}, startTime |-> Empty, endTime |-> Empty,
        timezone |-> "", priority |-> 50],
       [active |-> TRUE, trigger |-> "keyword",
        keywords |-> << <<"h", "e", "l", "p">> >>,
        matchType |-> "exact", rtype |-> "handoff",
        text |-> Empty, message |-> Empty,
        days |-> {}, startTime |-> Empty, endTime |-> Empty,
        timezone |-> "", priority |-> 10] >>

\* What inbound deliveries carry.
Senders == <<"u1", "u2", "u3", "u4">>
MessageIDs == <<"m1", "m2", "m3", "m4">>
Contents == { <<"H", "i">>, <<"a", "g", "e", "n", "t">>,
              <<"h", "e", "l", "p">>, <<"z">> }
ChannelTypes == {"mock", "facebook", "web"}

\* main.go registers the mock and the Facebook adapter at startup.
Registered == {"mock", "facebook"}

\* Provider ids given to the n-th message handed to a provider.
SentID(n) == <<"s1", "s2", "s3", "s4", "s5", "s6">>[n]

\* The clock is not observable to the rules of this workspace (none is a
\* time window rule).
Noon == [weekday |-> 1, minute |-> 720]

ActiveStatuses == {"open", "pending", "bot_paused"}
Statuses == ActiveStatuses \cup {"closed"}

DefaultHandoffReason ==
    <<"C", "u", "s", "t", "o", "m", "e", "r", " ", "r", "e", "q", "u", "e",
      "s", "t", "e", "d", " ", "a", "g", "e", "n", "t">>
AgentPauseReason ==
    <<"P", "a", "u", "s", "e", "d", " ", "b", "y", " ", "a", "g", "e", "n", "t">>

\* ToggleBot (POST /conversations/:id/bot) with enabled false / true, and
\* Update (PATCH /conversations/:id) with status "closed" / "open" /
\* "pending" or with a priority and no status.
AgentRequests == {"pause", "resume", "close", "reopen", "pending", "priority"}

\* The requests by which an agent takes a conversation out of bot_paused.
ManualRequests == {"resume", "close", "reopen", "pending"}

\* ------------------------------------------------------------------- state
VARIABLES
    participants,   \* table participants: row id = index
    conversations,  \* table conversations: row id = index, in creation order
    messages,       \* table messages: row id = index
    hits,           \* rules.hit_count per rule
    sent,           \* what the providers were handed (MockChannel.sentMessages)
    calls,          \* the deliveries: position and in-memory values of each
    agent,          \* the agent request in flight
    faults,         \* failures injected so far
    agentOps,       \* agent requests made so far
    env,            \* what the environment does in this behaviour
    handed,         \* history: conversations on which a bot handoff was
                    \* persisted and that no agent has resumed or closed since
    probe           \* a call of the rule engine or the responder on its own:
                    \* its arguments and what it returned

vars == <<participants, conversations, messages, hits, sent, calls, agent,
          faults, agentOps, env, handed, probe>>

NoConv == [id |-> 0, participant |-> 0, status |-> "", reason |-> Empty,
           preview |-> Empty, lastAt |-> 0]
NoInbound == [sender |-> "", content |-> Empty, type |-> "", cmid |-> "",
              contentType |-> "", attachments |-> << >>, at |-> 0]

\* What a delivery is made of besides its text: a content type and
\* attachments (InboundMessage.ContentType, InboundMessage.Attachments).
PlainText == [contentType |-> "text", attachments |-> << >>]
Picture == [contentType |-> "image",
            attachments |-> << [type |-> "image", url |-> "u"] >>]
NoOutbound == [to |-> "", contentType |-> "", content |-> Empty]
NoResponse == [shouldReply |-> FALSE, response |-> NoOutbound,
               shouldHandoff |-> FALSE, reason |-> Empty, rule |-> 0,
               keyword |-> Empty, confidence |-> 0]
NoResult == [participantID |-> 0, participantCreated |-> FALSE,
             conversationID |-> 0, conversationCreated |-> FALSE,
             messageID |-> 0, botReplied |-> FALSE, botHandoff |-> FALSE,
             responseSent |-> NoOutbound]

IdleCall ==
    [pc |-> "idle", in |-> NoInbound, conv |-> NoConv, bot |-> NoResponse,
     out |-> 0, outCmid |-> "", handoff |-> FALSE, result |-> NoResult, err |-> "",
     seen |-> "", invoked |-> FALSE, hit |-> 0, sends |-> 0, failed |-> {},
     after |-> {}, live |-> FALSE, late |-> FALSE, pid |-> 0]

IdleAgent == [pc |-> "idle", op |-> "", conv |-> NoConv]

\* No call of the rule engine or the responder on its own.
NoProbe == [pc |-> "none", rules |-> << >>, content |-> Empty, now |-> Noon,
            recipient |-> "", hits |-> << >>, out |-> NoMatch]

\* The store after the migrations and the services after construction.
Fresh ==
    /\ participants = << >>
    /\ conversations = << >>
    /\ messages = << >>
    /\ hits = [i \in 1..Len(Rules) |-> 0]
    /\ sent = << >>
    /\ calls = [d \in 1..env.calls |-> IdleCall]
    /\ agent = IdleAgent
    /\ faults = 0
    /\ agentOps = 0
    /\ handed = {}

\* The pipeline with no call of the engine on its own.
Pipeline == probe = NoProbe

\* Deliveries arrive one after the other, with anything in them; agent
\* requests run between and during them.
Init ==
    /\ env = [calls |-> MaxCalls, overlap |-> FALSE, senders |-> MaxCalls,
              kinds |-> {PlainText},
              contents |-> Contents, types |-> ChannelTypes,
              incidents |-> MaxIncidents, failures |-> TRUE,
              agent |-> AgentRequests]
    /\ Fresh
    /\ Pipeline

\* Deliveries of one sender over the mock channel overlap.
InitBurst ==
    /\ env = [calls |-> MaxBurst, overlap |-> TRUE, senders |-> 1,
              kinds |-> {PlainText},
              contents |-> {<<"H", "i">>, <<"a", "g", "e", "n", "t">>},
              types |-> {"mock"}, incidents |-> MaxIncidents,
              failures |-> FALSE, agent |-> {"pause"}]
    /\ Fresh
    /\ Pipeline

\* A repository or provider call succeeds, or fails while failures remain.
Outcomes ==
    IF env.failures /\ faults + agentOps < env.incidents
    THEN {"ok", "fail"} ELSE {"ok"}
Fault(o) == faults' = IF o = "ok" THEN faults ELSE faults + 1

\* What the Graph API answers to a send: 200 with a message_id, an error, or
\* 200 with a body that carries no message_id.
ProviderOutcomes == Outcomes \cup (IF "fail" \in Outcomes THEN {"blank"} ELSE {})

\* The delivery c after a call of it named step ended with outcome o.
Tried(c, step, o) ==
    IF o = "fail" THEN [c EXCEPT !.failed = @ \cup {step}] ELSE c

Set(d, c) == calls' = [calls EXCEPT ![d] = c]


\* ------------------------------------------------------------ repositories
\* participantRepo.FindByChannelUserID: the rows of the sender. Rows have
\* random UUID keys, so First may return any of several rows of one sender.
\* A lookup by a key that no row has.
ParticipantsOfNone(user) == {}

ParticipantsOf(user) ==
    {i \in 1..Len(participants) : participants[i].user = user}

\* A lookup that takes only open conversations for active ones.
FindOpenOnly(pid) ==
    LET S == {i \in 1..Len(conversations) :
                 /\ conversations[i].participant = pid
                 /\ conversations[i].status = "open"}
    IN  IF S = {} THEN 0 ELSE CHOOSE i \in S : \A j \in S : j <= i

\* conversationRepo.FindOpenByParticipant: status IN (open, pending,
\* bot_paused), ORDER BY created_at DESC, First. 0 when there is none.
FindOpenByParticipant(pid) ==
    LET S == {i \in 1..Len(conversations) :
                 /\ conversations[i].participant = pid
                 /\ conversations[i].status \in ActiveStatuses}
    IN  IF S = {} THEN 0 ELSE CHOOSE i \in S : \A j \in S : j <= i

\* conversationRepo.FindByID (the row with its id).
Row(cid) == [conversations[cid] EXCEPT !.id = cid]

\* conversationRepo.Update: gorm Save writes every column of the row from
\* the in-memory struct.
SaveConversation(c) ==
    [conversations EXCEPT ![c.id] = c]

\* A pause test that looks for the wrong status.
PausedIfClosed(c) == c.status = "closed"

\* Conversation methods (internal/models).
IsBotPaused(c) == c.status = "bot_paused"
PauseBot(c, reason) == [c EXCEPT !.status = "bot_paused", !.reason = reason]
ResumeBot(c) == [c EXCEPT !.status = "open", !.reason = Empty]
PreviewMax == 500

\* A Go string is its UTF-8 bytes: len counts them and s[:n] cuts between
\* them. Text here is a sequence of characters; an ASCII character is one
\* byte (written as the character), and Wide stands for a character of three
\* bytes (U+1EC7, used in Vietnamese text).
Wide == "U+1EC7"
Utf8(ch) == IF ch = Wide THEN <<"E1", "BB", "87">> ELSE <<ch>>

\* The bytes of the characters lo..hi of s, one after the other.
RECURSIVE BytesOf(_, _, _)
BytesOf(s, lo, hi) ==
    IF lo > hi THEN << >>
    ELSE IF lo = hi THEN Utf8(s[lo])
    ELSE LET mid == (lo + hi) \div 2
         IN  BytesOf(s, lo, mid) \o BytesOf(s, mid + 1, hi)

Bytes(s) == BytesOf(s, 1, Len(s))

\* Byte i of b begins a whole three-byte character.
Leads(b, i) ==
    /\ i >= 1 /\ i + 2 <= Len(b)
    /\ <<b[i], b[i + 1], b[i + 2]>> = Utf8(Wide)

\* What byte i of b reads as: a character, nothing when it is the second or
\* third byte of a whole character, the replacement character when it is a
\* byte of a character that is not whole.
RuneAt(b, i) ==
    IF Leads(b, i) THEN <<Wide>>
    ELSE IF Leads(b, i - 1) \/ Leads(b, i - 2) THEN << >>
    ELSE IF b[i] \in {"E1", "BB", "87"} THEN <<"U+FFFD">>
    ELSE <<b[i]>>

RECURSIVE RunesOf(_, _, _)
RunesOf(b, lo, hi) ==
    IF lo > hi THEN << >>
    ELSE IF lo = hi THEN RuneAt(b, lo)
    ELSE LET mid == (lo + hi) \div 2
         IN  RunesOf(b, lo, mid) \o RunesOf(b, mid + 1, hi)

\* The characters a sequence of bytes reads as.
Runes(b) == RunesOf(b, 1, Len(b))

\* A preview cut by characters.
UpdateLastMessageByRune(c, content, at) ==
    [c EXCEPT !.lastAt = at,
              !.preview =
                 IF Len(content) > PreviewMax
                 THEN Bytes(SubSeq(content, 1, PreviewMax - 3))
                          \o <<".", ".", ".">>
                 ELSE Bytes(content)]

UpdateLastMessage(c, content, at) ==
    LET b == Bytes(content)
    IN  [c EXCEPT !.lastAt = at,
                  !.preview =
                     IF Len(b) > PreviewMax
                     THEN SubSeq(b, 1, PreviewMax - 3) \o <<".", ".", ".">>
                     ELSE b]

\* --------------------------------------------------------- ProcessInbound
\* A delivery arrives: the handler hands ProcessInbound a normalized message.
Started == {d \in DOMAIN calls : calls[d].pc # "idle"}
InFlight == {d \in Started : calls[d].pc # "done"}

\* Sender ids and provider message ids are only ever compared with each
\* other, so a delivery carries one that an earlier delivery carried or the
\* next one of the pool.
Pick(pool, used, limit) ==
    {pool[i] : i \in 1..limit} \cap
        (used \cup {pool[Cardinality(used) + 1]})

Start(d) ==
    /\ calls[d].pc = "idle"
    /\ \A e \in 1..(d - 1) : calls[e].pc # "idle"
    /\ env.overlap \/ InFlight = {}
    /\ \E s \in Pick(Senders, {calls[e].in.sender : e \in Started}, env.senders),
          c \in env.contents, t \in env.types, k \in env.kinds,
          m \in Pick(MessageIDs, {calls[e].in.cmid : e \in Started}, env.calls) :
         Set(d, [calls[d] EXCEPT
                   !.pc = "participant_find",
                   !.in = [sender |-> s, content |-> c, type |-> t, cmid |-> m,
                           contentType |-> k.contentType,
                           attachments |-> k.attachments,
                           at |-> d],
                   !.after = {e \in DOMAIN calls : calls[e].pc = "done"},
                   !.late = \E i \in handed :
                               participants[conversations[i].participant].user = s])
    /\ UNCHANGED <<env, probe, participants, conversations, messages, hits, sent,
                   agent, faults, agentOps, handed>>

\* participantRepo.FindOrCreate, the lookup: found rows end the step with
\* created = false; no row, or a failed query, leads to the insert.
ParticipantFind(d) ==
    /\ calls[d].pc = "participant_find"
    /\ \E o \in Outcomes :
         /\ Fault(o)
         /\ LET found == ParticipantsOf(calls[d].in.sender)
            IN  IF o = "ok" /\ found # {}
                THEN \E p \in found :
                       Set(d, [calls[d] EXCEPT
                                 !.pc = "conversation_find",
                                 !.pid = p,
                                 !.result.participantID = p,
                                 !.result.participantCreated = FALSE])
                ELSE Set(d, Tried([calls[d] EXCEPT !.pc = "participant_create"],
                                  "participant_find", o))
    /\ UNCHANGED <<env, probe, participants, conversations, messages, hits, sent,
                   agent, agentOps, handed>>

\* participantRepo.FindOrCreate, the insert; a failure ends ProcessInbound
\* with the error and no result.
ParticipantCreate(d) ==
    /\ calls[d].pc = "participant_create"
    /\ \E o \in Outcomes :
         /\ Fault(o)
         /\ IF o = "ok"
            THEN /\ participants' =
                      Append(participants, [user |-> calls[d].in.sender])
                 /\ Set(d, [calls[d] EXCEPT
                              !.pc = "conversation_find",
                              !.pid = Len(participants) + 1,
                              !.result.participantID = Len(participants) + 1,
                              !.result.participantCreated = TRUE])
            ELSE /\ UNCHANGED participants
                 /\ Set(d, Tried([calls[d] EXCEPT !.pc = "done",
                                                  !.err = "participant",
                                                  !.result = NoResult],
                                  "participant", o))
    /\ UNCHANGED <<env, probe, conversations, messages, hits, sent, agent,
                   agentOps, handed>>

\* conversationRepo.FindOrCreate, the lookup.
ConversationFind(d) ==
    /\ calls[d].pc = "conversation_find"
    /\ \E o \in Outcomes :
         /\ Fault(o)
         /\ LET cid == FindOpenByParticipant(calls[d].result.participantID)
            IN  IF o = "ok" /\ cid # 0
                THEN Set(d, [calls[d] EXCEPT
                               !.pc = "save_message",
                               !.conv = Row(cid),
                               !.seen = conversations[cid].status,
                               !.live = TRUE,
                               !.result.conversationID = cid,
                               !.result.conversationCreated = FALSE])
                ELSE Set(d, Tried([calls[d] EXCEPT !.pc = "conversation_create"],
                                  "conversation_find", o))
    /\ UNCHANGED <<env, probe, participants, conversations, messages, hits, sent,
                   agent, agentOps, handed>>

\* conversationRepo.FindOrCreate, the insert of a new open conversation.
ConversationCreate(d) ==
    /\ calls[d].pc = "conversation_create"
    /\ \E o \in Outcomes :
         /\ Fault(o)
         /\ IF o = "ok"
            THEN LET c == [id |-> Len(conversations) + 1,
                           participant |-> calls[d].result.participantID,
                           status |-> "open", reason |-> Empty,
                           preview |-> Empty, lastAt |-> 0]
                 IN  /\ conversations' = Append(conversations, c)
                     /\ Set(d, [calls[d] EXCEPT
                                  !.pc = "save_message",
                                  !.conv = c,
                                  !.seen = "open",
                                  !.live = TRUE,
                                  !.result.conversationID = c.id,
                                  !.result.conversationCreated = TRUE])
            ELSE /\ UNCHANGED conversations
                 /\ Set(d, Tried([calls[d] EXCEPT !.pc = "done",
                                                  !.err = "conversation",
                                                  !.result = NoResult],
                                  "conversation", o))
    /\ UNCHANGED <<env, probe, participants, messages, hits, sent, agent,
                   agentOps, handed>>


\* messageService.saveMessage: the inbound message, inserted as it comes (no
\* lookup by provider message id precedes the insert).
\* An inbound row that is always stored as text, with no attachment.
InboundRowAsText(cid, in) ==
    [conv |-> cid, direction |-> "in", senderType |-> "customer",
     content |-> in.content, cmid |-> in.cmid, rule |-> 0,
     keyword |-> Empty, confidence |-> 0,
     contentType |-> "text", attachments |-> << >>]

InboundRow(cid, in) ==
    [conv |-> cid, direction |-> "in", senderType |-> "customer",
     content |-> in.content, cmid |-> in.cmid, rule |-> 0,
     keyword |-> Empty, confidence |-> 0,
     contentType |-> in.contentType,
     attachments |-> [i \in 1..Len(in.attachments) |->
                        [type |-> in.attachments[i].type,
                         url |-> in.attachments[i].url]]]

\* An insert whose failure is only logged.
SaveMessageLogged(d) ==
    /\ calls[d].pc = "save_message"
    /\ \E o \in Outcomes :
         /\ Fault(o)
         /\ messages' = IF o = "ok"
                        THEN Append(messages,
                                    InboundRow(calls[d].conv.id, calls[d].in))
                        ELSE messages
         /\ Set(d, Tried([calls[d] EXCEPT
                            !.pc = "update_last",
                            !.result.messageID = IF o = "ok"
                                                 THEN Len(messages) + 1 ELSE 0],
                         "message", o))
    /\ UNCHANGED <<env, probe, participants, conversations, hits, sent, agent,
                   agentOps, handed>>

SaveMessage(d) ==
    /\ calls[d].pc = "save_message"
    /\ \E o \in Outcomes :
         /\ Fault(o)
         /\ IF o = "ok"
            THEN /\ messages' =
                      Append(messages, InboundRow(calls[d].conv.id, calls[d].in))
                 /\ Set(d, [calls[d] EXCEPT
                              !.pc = "update_last",
                              !.result.messageID = Len(messages) + 1])
            ELSE /\ UNCHANGED messages
                 /\ Set(d, Tried([calls[d] EXCEPT !.pc = "done",
                                                  !.err = "message",
                                                  !.result = NoResult],
                                  "message", o))
    /\ UNCHANGED <<env, probe, participants, conversations, hits, sent, agent,
                   agentOps, handed>>

\* A summary update whose failure ends ProcessInbound with an error.
UpdateOrAbort(d) ==
    /\ calls[d].pc = "update_last"
    /\ LET c == UpdateLastMessage(calls[d].conv, calls[d].in.content,
                                calls[d].in.at)
       IN  \E o \in Outcomes :
             /\ Fault(o)
             /\ conversations' = IF o = "ok" THEN SaveConversation(c)
                                 ELSE conversations
             /\ Set(d, Tried(IF o = "ok"
                             THEN [calls[d] EXCEPT !.pc = "bot", !.conv = c]
                             ELSE [calls[d] EXCEPT !.pc = "done",
                                                   !.err = "summary",
                                                   !.result = NoResult],
                             "summary", o))
    /\ UNCHANGED <<env, probe, participants, messages, hits, sent, agent,
                   agentOps, handed>>

\* messageService.updateConversationLastMessage: the in-memory conversation
\* gets the preview and is saved as a whole; a failed save is only logged.
UpdateConversationLastMessage(d) ==
    /\ calls[d].pc = "update_last"
    /\ LET c == UpdateLastMessage(calls[d].conv, calls[d].in.content,
                                calls[d].in.at)
       IN  /\ \E o \in Outcomes :
                /\ Fault(o)
                /\ conversations' = IF o = "ok" THEN SaveConversation(c)
                                    ELSE conversations
                /\ Set(d, Tried([calls[d] EXCEPT !.pc = "bot", !.conv = c],
                                 "summary", o))
    /\ UNCHANGED <<env, probe, participants, messages, hits, sent, agent,
                   agentOps, handed>>

\* A responder that announces every handoff, configured message or not.
ResponseAlwaysReplies(rules, m, recipientID) ==
    LET r == rules[m.rule]
        base == [NoResponse EXCEPT !.rule = m.rule, !.keyword = m.keyword,
                                   !.confidence = m.confidence]
    IN  IF IsHandoffResponse(r)
        THEN [base EXCEPT
                !.shouldHandoff = TRUE,
                !.reason = IF r.message = Empty THEN DefaultHandoffReason
                           ELSE r.message,
                !.shouldReply = TRUE,
                !.response = BuildFromRule(r, recipientID)]
        ELSE [base EXCEPT !.shouldReply = TRUE,
                          !.response = BuildFromRule(r, recipientID)]

\* responder.Process after the rules are loaded and one has matched (step 4).
ResponseFor(rules, m, recipientID) ==
    LET r == rules[m.rule]
        base == [NoResponse EXCEPT !.rule = m.rule, !.keyword = m.keyword,
                                   !.confidence = m.confidence]
    IN  IF IsHandoffResponse(r)
        THEN [base EXCEPT
                !.shouldHandoff = TRUE,
                !.reason = IF r.message = Empty THEN DefaultHandoffReason
                           ELSE r.message,
                !.shouldReply = r.message # Empty,
                !.response = IF r.message # Empty
                             THEN BuildFromRule(r, recipientID) ELSE NoOutbound]
        ELSE [base EXCEPT !.shouldReply = TRUE,
                          !.response = BuildFromRule(r, recipientID)]

\* ruleRepo.FindActiveByWorkspace
ActiveRules == SelectSeq(Rules, LAMBDA r : r.active)

\* Position in Rules of the i-th active rule.
RuleID(i) ==
    CHOOSE k \in 1..Len(Rules) :
        /\ Rules[k].active
        /\ Cardinality({j \in 1..k : Rules[j].active}) = i

\* Where processBotResponse goes once the responder has answered.
AfterResponder(b) ==
    IF b.shouldHandoff THEN "pause"
    ELSE IF b.shouldReply THEN "bot_message"
    ELSE "done"

\* ProcessInbound step 6 up to the responder's answer: nothing is done for
\* a conversation that is bot-paused in memory; otherwise responder.Process
\* loads the rules (a failure ends the bot step), matches, and increments
\* the hit count of the matched rule (a failure is swallowed).
Respond(d) ==
    /\ calls[d].pc = "bot"
    /\ IF IsBotPaused(calls[d].conv)
       THEN /\ Set(d, [calls[d] EXCEPT !.pc = "done"])
            /\ UNCHANGED <<hits, faults>>
       ELSE \E load \in Outcomes :
              IF load = "fail"
              THEN /\ Fault(load)
                   /\ Set(d, Tried([calls[d] EXCEPT !.pc = "done",
                                                    !.invoked = TRUE],
                                    "rules", load))
                   /\ UNCHANGED hits
              ELSE LET m == Match(ActiveRules, calls[d].in.content, Noon)
                   IN  IF ~m.matched
                       THEN /\ Set(d, [calls[d] EXCEPT !.pc = "done",
                                                       !.invoked = TRUE])
                            /\ UNCHANGED <<hits, faults>>
                       ELSE \E inc \in Outcomes :
                              LET b == ResponseFor(ActiveRules, m,
                                                   calls[d].in.sender)
                                  k == RuleID(m.rule)
                              IN  /\ Fault(inc)
                                  /\ hits' = IF inc = "ok"
                                             THEN [hits EXCEPT ![k] = @ + 1]
                                             ELSE hits
                                  /\ Set(d, Tried([calls[d] EXCEPT
                                                 !.pc = AfterResponder(b),
                                                 !.bot = [b EXCEPT !.rule = k],
                                                 !.invoked = TRUE,
                                                 !.hit = IF inc = "ok" THEN k
                                                         ELSE 0],
                                             "hit", inc))
    /\ UNCHANGED <<env, probe, participants, conversations, messages, sent, agent,
                   agentOps, handed>>


\* processBotResponse returns (result, nil): ProcessInbound copies the bot
\* step's result into its own.
Returned(c, replied, response) ==
    [c EXCEPT !.pc = "done",
              !.result.botReplied = replied,
              !.result.botHandoff = c.handoff,
              !.result.responseSent = response]

\* processBotResponse, the handoff: PauseBot on the in-memory conversation,
\* saved as a whole; a failed save is only logged.
PauseOnHandoff(d) ==
    /\ calls[d].pc = "pause"
    /\ LET c == PauseBot(calls[d].conv, calls[d].bot.reason)
           next == [calls[d] EXCEPT !.conv = c, !.handoff = TRUE]
       IN  /\ \E o \in Outcomes :
                /\ Fault(o)
                /\ conversations' = IF o = "ok" THEN SaveConversation(c)
                                    ELSE conversations
                /\ handed' = IF o = "ok" THEN handed \cup {c.id} ELSE handed
                /\ Set(d, Tried(IF calls[d].bot.shouldReply
                                 THEN [next EXCEPT !.pc = "bot_message"]
                                 ELSE Returned(next, FALSE, NoOutbound),
                                 "pause", o))
    /\ UNCHANGED <<env, probe, participants, messages, hits, sent, agent,
                   agentOps>>

\* A bot message that is given a provider id before anything was sent.
BotRowStamped(cid, b, cmid) ==
    [conv |-> cid, direction |-> "out", senderType |-> "bot",
     content |-> b.response.content,
     cmid |-> IF cmid = "" THEN "pending" ELSE cmid, rule |-> b.rule,
     keyword |-> b.keyword, confidence |-> b.confidence,
     contentType |-> "text", attachments |-> << >>]

\* The bot-authored outbound message of a reply.
BotRow(cid, b, cmid) ==
    [conv |-> cid, direction |-> "out", senderType |-> "bot",
     content |-> b.response.content, cmid |-> cmid, rule |-> b.rule,
     keyword |-> b.keyword, confidence |-> b.confidence,
     contentType |-> "text", attachments |-> << >>]

\* processBotResponse, the reply is stored; a failed insert is only logged
\* and the reply is sent all the same.
SaveBotMessage(d) ==
    /\ calls[d].pc = "bot_message"
    /\ \E o \in Outcomes :
         /\ Fault(o)
         /\ IF o = "ok"
            THEN /\ messages' = Append(messages,
                                       BotRow(calls[d].conv.id, calls[d].bot, ""))
                 /\ Set(d, [calls[d] EXCEPT !.pc = "send",
                                            !.out = Len(messages) + 1])
            ELSE /\ UNCHANGED messages
                 /\ Set(d, Tried([calls[d] EXCEPT !.pc = "send"],
                                  "bot_message", o))
    /\ UNCHANGED <<env, probe, participants, conversations, hits, sent, agent,
                   agentOps, handed>>

\* Registry.Get
Has(type) == type \in Registered

\* MockChannel.Send / FacebookChannel.Send: the SendResult. The mock refuses
\* an empty recipient; Facebook refuses an empty page_access_token without
\* calling the Graph API, and reports a failed call.
\* The results of Send: error is SendResult.Error being set, fnErr the
\* function's own error return, attempted that the delivery was tried, handed
\* that the provider took the message (the mock: that it recorded it).
Refused ==
    [success |-> FALSE, cmid |-> "", handed |-> FALSE, error |-> TRUE,
     fnErr |-> FALSE, attempted |-> FALSE]
Delivered(cmid) ==
    [success |-> TRUE, cmid |-> cmid, handed |-> TRUE, error |-> FALSE,
     fnErr |-> FALSE, attempted |-> TRUE]

\* An adapter that calls the Graph API without looking at the token.
SendUnchecked(type, msg, accessToken, http, n) ==
    IF type = "mock"
    THEN IF msg.to = "" THEN Refused ELSE Delivered(SentID(n))
    ELSE IF http \in {"fail", "refused"}
    THEN [Refused EXCEPT !.attempted = TRUE]
    ELSE IF http = "blank" THEN Delivered("")
    ELSE Delivered(SentID(n))

SendResult(type, msg, accessToken, http, n) ==
    IF type = "mock"
    THEN IF msg.to = "" THEN Refused ELSE Delivered(SentID(n))
    ELSE IF accessToken = "" THEN Refused
    ELSE IF http \in {"fail", "refused"}
    THEN [Refused EXCEPT !.attempted = TRUE]
    ELSE IF http = "blank" THEN Delivered("")
    ELSE Delivered(SentID(n))


\* channelAccountRepo.FindByID: the page_access_token of the channel account
\* as stored at the time; only the Facebook adapter reads it.
Tokens(type) == IF type = "facebook" THEN {"", "tok"} ELSE {""}

\* processBotResponse from the registry lookup to the SendResult: an
\* unregistered channel type ends the bot step with an error (ProcessInbound
\* logs it and copies nothing); a failed channel account lookup and a failed
\* send end it with the result so far.
SendReply(d) ==
    /\ calls[d].pc = "send"
    /\ IF ~Has(calls[d].in.type)
       THEN /\ Set(d, [calls[d] EXCEPT !.pc = "done"])
            /\ UNCHANGED <<sent, faults>>
       ELSE \E acct \in Outcomes :
              IF acct = "fail"
              THEN /\ Fault(acct)
                   /\ Set(d, Tried(Returned(calls[d], FALSE, NoOutbound),
                                    "account", acct))
                   /\ UNCHANGED sent
              ELSE \E token \in Tokens(calls[d].in.type),
                      http \in IF calls[d].in.type = "facebook"
                               THEN ProviderOutcomes ELSE {"ok"} :
                     LET msg == calls[d].bot.response
                         r == SendResult(calls[d].in.type, msg, token, http,
                                         Len(sent) + 1)
                         c == [calls[d] EXCEPT !.sends = @ + 1]
                     IN  /\ Fault(http)
                         /\ sent' = IF r.handed
                                    THEN Append(sent, [type |-> calls[d].in.type,
                                                       msg |-> msg])
                                    ELSE sent
                         /\ Set(d, IF ~r.success
                                   THEN Tried(Returned(c, FALSE, NoOutbound),
                                              "send", "fail")
                                   ELSE IF r.cmid = ""
                                   THEN Returned(c, TRUE, msg)
                                   ELSE [c EXCEPT !.pc = "backfill",
                                                  !.outCmid = r.cmid])
    /\ UNCHANGED <<env, probe, participants, conversations, messages, hits, agent,
                   agentOps, handed>>

\* processBotResponse, the provider id is written back: gorm Save updates
\* the stored bot message, and inserts it when the earlier insert had failed;
\* the outcome of the save is ignored.
BackfillMessageID(d) ==
    /\ calls[d].pc = "backfill"
    /\ LET row == BotRow(calls[d].conv.id, calls[d].bot, calls[d].outCmid)
       IN  \E o \in Outcomes :
             /\ Fault(o)
             /\ messages' = IF o = "fail" THEN messages
                            ELSE IF calls[d].out = 0 THEN Append(messages, row)
                            ELSE [messages EXCEPT ![calls[d].out] = row]
             /\ Set(d, Tried(Returned([calls[d] EXCEPT
                                         !.out = IF o = "ok" /\ @ = 0
                                                 THEN Len(messages) + 1 ELSE @],
                                      TRUE, calls[d].bot.response),
                              "backfill", o))
    /\ UNCHANGED <<env, probe, participants, conversations, hits, sent, agent,
                   agentOps, handed>>

\* ------------------------------------------------------------- the agent
\* Both handlers start with conversationRepo.FindByID.
AgentLoad(op, cid) ==
    /\ agent.pc = "idle"
    /\ faults + agentOps < env.incidents
    /\ op \in env.agent
    /\ cid \in 1..Len(conversations)
    /\ agent' = [pc |-> "loaded", op |-> op, conv |-> Row(cid)]
    /\ agentOps' = agentOps + 1
    /\ UNCHANGED <<env, probe, participants, conversations, messages, hits, sent,
                   calls, faults, handed>>

\* What the handler does to the conversation it loaded.
Applied(op, c) ==
    CASE op = "pause" -> PauseBot(c, AgentPauseReason)
      [] op = "resume" -> ResumeBot(c)
      [] op = "close" -> [c EXCEPT !.status = "closed"]
      [] op = "reopen" -> [c EXCEPT !.status = "open"]
      [] op = "pending" -> [c EXCEPT !.status = "pending"]
      [] op = "priority" -> c

\* ... and both end with conversationRepo.Update of the loaded conversation.
AgentSave ==
    /\ agent.pc = "loaded"
    /\ LET c == Applied(agent.op, agent.conv)
           manual == agent.op \in ManualRequests
           left == IF manual THEN handed \ {c.id} ELSE handed
       IN  /\ conversations' = SaveConversation(c)
           /\ handed' = left
           /\ calls' = [d \in DOMAIN calls |->
                 [calls[d] EXCEPT
                    !.live = @ /\ ~(agent.op = "close" /\ calls[d].conv.id = c.id),
                    !.late = @ /\ \E i \in left :
                        participants[conversations[i].participant].user
                            = calls[d].in.sender]]
    /\ agent' = IdleAgent
    /\ UNCHANGED <<env, probe, participants, messages, hits, sent, faults,
                   agentOps>>

\* ------------------------------------------------------------------- spec
Next ==
    \/ \E d \in DOMAIN calls : Start(d)
    \/ \E d \in DOMAIN calls : ParticipantFind(d)
    \/ \E d \in DOMAIN calls : ParticipantCreate(d)
    \/ \E d \in DOMAIN calls : ConversationFind(d)
    \/ \E d \in DOMAIN calls : ConversationCreate(d)
    \/ \E d \in DOMAIN calls : SaveMessage(d)
    \/ \E d \in DOMAIN calls : UpdateConversationLastMessage(d)
    \/ \E d \in DOMAIN calls : Respond(d)
    \/ \E d \in DOMAIN calls : PauseOnHandoff(d)
    \/ \E d \in DOMAIN calls : SaveBotMessage(d)
    \/ \E d \in DOMAIN calls : SendReply(d)
    \/ \E d \in DOMAIN calls : BackfillMessageID(d)
    \/ \E op \in AgentRequests, cid \in 1..Len(conversations) : AgentLoad(op, cid)
    \/ AgentSave

Spec == Init /\ [][Next]_vars

SpecBurst == InitBurst /\ [][Next]_vars

\* ------------------------------------------- the rule engine on its own
\* The engine and the responder are pure but for the rules table: a call is
\* made on arguments drawn at the start, with no delivery running.
NoDeliveries ==
    /\ env = [calls |-> 0, overlap |-> FALSE, senders |-> 0, contents |-> {},
              kinds |-> {},
              types |-> {}, incidents |-> MaxIncidents, failures |-> TRUE,
              agent |-> {}]
    /\ Fresh

\* A rule of which only some fields matter to the call.
BaseRule ==
    [active |-> TRUE, trigger |-> "keyword", keywords |-> << >>,
     matchType |-> "", rtype |-> "text", text |-> <<"H", "e", "l", "l", "o">>,
     message |-> Empty, days |-> {}, startTime |-> Empty, endTime |-> Empty,
     timezone |-> "", priority |-> 0]

\* Sequences over S of length at most n.
SeqsUpTo(S, n) == UNION {[1..k -> S] : k \in 0..n}

TriggerTypes == {"keyword", "time_window", "fallback", "intent"}

\* Keyword rules and contents for Rule.MatchesKeyword.
MaxKeywords == 2
KeywordPool == {Empty, <<"h", "i">>, <<"H", "E", "L", "P">>, <<"z">>}
MatchTypes == {"", "exact", "contains", "regex"}
KeywordContents ==
    {Empty, <<"H", "i">>, <<"h", "e", "l", "p">>,
     <<"h", "e", "l", "p", "z">>, <<"a">>}

InitKeyword ==
    /\ NoDeliveries
    /\ \E t \in TriggerTypes, ks \in SeqsUpTo(KeywordPool, MaxKeywords),
          mt \in MatchTypes, c \in KeywordContents :
         probe = [NoProbe EXCEPT
                    !.pc = "call",
                    !.rules = << [BaseRule EXCEPT !.trigger = t, !.keywords = ks,
                                                  !.matchType = mt] >>,
                    !.content = c]

\* rule.MatchesKeyword(content) is called.
CallMatchesKeyword ==
    /\ probe.pc = "call"
    /\ probe' = [probe EXCEPT
                   !.pc = "returned",
                   !.out = MatchesKeyword(probe.rules[1], probe.content)]
    /\ UNCHANGED <<env, participants, conversations, messages, hits, sent,
                   calls, agent, faults, agentOps, handed>>

SpecKeyword == InitKeyword /\ [][CallMatchesKeyword]_vars

\* Time-window rules and instants for Rule.MatchesTimeWindow: window ends
\* as "HH:mm" strings, day lists, a zone east of UTC, the empty zone name
\* and one that cannot be loaded, and instants of which some fall on the
\* next local day.
WindowEnds == {0, 360, 720, 1320, 1439}
DayLists == {{}, {1}, {0, 6}}
Zones == {"", "Asia/Ho_Chi_Minh", "Mars/Olympus"}
Weekdays == {0, 1, 6}
Clocks == {120, 720, 1020, 1410}

InitWindow ==
    /\ NoDeliveries
    /\ \E t \in {"time_window", "keyword"}, from \in WindowEnds,
          to \in WindowEnds, ds \in DayLists, tz \in Zones,
          wd \in Weekdays, m \in Clocks :
         probe = [NoProbe EXCEPT
                    !.pc = "call",
                    !.rules = << [BaseRule EXCEPT !.trigger = t,
                                                  !.startTime = Format1504(from),
                                                  !.endTime = Format1504(to),
                                                  !.days = ds,
                                                  !.timezone = tz] >>,
                    !.now = [weekday |-> wd, minute |-> m]]

\* rule.MatchesTimeWindow(now) is called.
CallMatchesTimeWindow ==
    /\ probe.pc = "call"
    /\ probe' = [probe EXCEPT
                   !.pc = "returned",
                   !.out = MatchesTimeWindow(probe.rules[1], probe.now)]
    /\ UNCHANGED <<env, participants, conversations, messages, hits, sent,
                   calls, agent, faults, agentOps, handed>>

SpecWindow == InitWindow /\ [][CallMatchesTimeWindow]_vars

\* Rules for ruleEngine.Match: keyword rules of priorities 90, 30 and 10, an
\* inactive one, an overnight time window, fallbacks of low and high
\* priority, an inactive fallback and an intent rule. Match is given any
\* list of up to MaxRules of them, in any order.
MaxRules == 3

EnginePool ==
    {[BaseRule EXCEPT !.priority = 90, !.keywords = << <<"h", "i">> >>,
                      !.matchType = "contains"],
     [BaseRule EXCEPT !.priority = 99, !.keywords = << <<"h", "i">> >>,
                      !.matchType = "contains", !.active = FALSE],
     [BaseRule EXCEPT !.priority = 50, !.trigger = "time_window",
                      !.startTime = Format1504(1320),
                      !.endTime = Format1504(360)],
     [BaseRule EXCEPT !.priority = 30, !.keywords = << <<"h", "e", "l", "p">> >>,
                      !.matchType = "exact"],
     [BaseRule EXCEPT !.priority = 10,
                      !.keywords = << <<"b", "y", "e">>, <<"h">> >>],
     [BaseRule EXCEPT !.priority = 5, !.trigger = "fallback"],
     [BaseRule EXCEPT !.priority = 95, !.trigger = "fallback"],
     [BaseRule EXCEPT !.priority = 60, !.trigger = "fallback",
                      !.active = FALSE],
     [BaseRule EXCEPT !.priority = 70, !.trigger = "intent"]}

EngineContents ==
    {<<"H", "i">>, <<"H", "E", "L", "P">>, <<"h", "e", "l", "p", "z">>, <<"z">>}

\* time.Now() when Match runs: at noon or at 23:30.
EngineClocks == {Noon, [weekday |-> 1, minute |-> 1410]}

InitMatch ==
    /\ NoDeliveries
    /\ \E rs \in SeqsUpTo(EnginePool, MaxRules), c \in EngineContents,
          t \in EngineClocks :
         probe = [NoProbe EXCEPT !.pc = "call", !.rules = rs, !.content = c,
                                 !.now = t]

\* engine.Match(ctx, rules, content) is called.
CallMatch ==
    /\ probe.pc = "call"
    /\ probe' = [probe EXCEPT
                   !.pc = "returned",
                   !.out = Match(probe.rules, probe.content, probe.now)]
    /\ UNCHANGED <<env, participants, conversations, messages, hits, sent,
                   calls, agent, faults, agentOps, handed>>

SpecMatch == InitMatch /\ [][CallMatch]_vars

\* ruleRepo.FindActiveByWorkspace on a rules table kept by descending
\* priority: the active rows, in that order.
FindActiveByWorkspace(table) == SelectSeq(table, LAMBDA r : r.active)

\* The row of the table that is the i-th active rule (its rule.ID).
RowOfActive(table, i) ==
    CHOOSE k \in 1..Len(table) :
        /\ table[k].active
        /\ Cardinality({j \in 1..k : table[j].active}) = i

\* What a call of Process returns and which rows it asks to increment.
Unanswered ==
    [err |-> FALSE, response |-> NoResponse, increments |-> << >>]

\* A responder that takes the position among the active rules for the row
\* to increment.
ProcessCountsPosition(table, content, recipientID, now, load) ==
    LET rules == FindActiveByWorkspace(table)
        m == Match(rules, content, now)
    IN  IF load # "ok" THEN [Unanswered EXCEPT !.err = TRUE]
        ELSE IF Len(rules) = 0 THEN Unanswered
        ELSE IF ~m.matched THEN Unanswered
        ELSE [err |-> FALSE,
              response |-> ResponseFor(rules, m, recipientID),
              increments |-> << m.rule >>]

\* responder.Process, given the outcome of the rules query.
Process(table, content, recipientID, now, load) ==
    LET rules == FindActiveByWorkspace(table)
        m == Match(rules, content, now)
    IN  IF load # "ok" THEN [Unanswered EXCEPT !.err = TRUE]
        ELSE IF Len(rules) = 0 THEN Unanswered
        ELSE IF ~m.matched THEN Unanswered
        ELSE [err |-> FALSE,
              response |-> ResponseFor(rules, m, recipientID),
              increments |-> << RowOfActive(table, m.rule) >>]

\* Rules for responder.Process, all of distinct priority: text, template,
\* handoff with and without its message, an inactive rule ahead of them all,
\* a rule of a response type the builder does not know, and a fallback.
ResponderPool ==
    {[BaseRule EXCEPT !.priority = 70, !.keywords = << <<"h", "i">> >>,
                      !.active = FALSE],
     [BaseRule EXCEPT !.priority = 60, !.keywords = << <<"h", "i">> >>],
     [BaseRule EXCEPT !.priority = 50, !.keywords = << <<"h", "i">> >>,
                      !.rtype = "template", !.text = <<"T", "p", "l">>],
     [BaseRule EXCEPT !.priority = 40, !.keywords = << <<"h", "i">> >>,
                      !.rtype = "handoff", !.message = <<"W", "a", "i", "t">>],
     [BaseRule EXCEPT !.priority = 30, !.keywords = << <<"h", "i">> >>,
                      !.rtype = "handoff"],
     [BaseRule EXCEPT !.priority = 20, !.keywords = << <<"h", "i">> >>,
                      !.rtype = "card"],
     [BaseRule EXCEPT !.priority = 10, !.trigger = "fallback",
                      !.text = <<"S", "o", "r", "r", "y">>]}

\* The rows of a set of rules by descending priority.
RECURSIVE ByPriority(_)
ByPriority(S) ==
    IF S = {} THEN << >>
    ELSE LET top == CHOOSE r \in S : \A q \in S : q.priority <= r.priority
         IN  <<top>> \o ByPriority(S \ {top})

ResponderContents == {<<"H", "i">>, <<"z">>}

InitResponder ==
    /\ NoDeliveries
    /\ \E table \in SUBSET ResponderPool, c \in ResponderContents :
         probe = [NoProbe EXCEPT
                    !.pc = "call",
                    !.rules = ByPriority(table),
                    !.content = c,
                    !.recipient = "u1",
                    !.hits = [k \in 1..Cardinality(table) |-> 0]]

\* responder.Process(ctx, workspaceID, recipientID, content) is called: the
\* rules query and the increment each succeed or fail, and a failed
\* increment is only logged.
CallProcess ==
    /\ probe.pc = "call"
    /\ \E load \in {"ok", "fail"}, inc \in {"ok", "fail"} :
         LET out == Process(probe.rules, probe.content, probe.recipient,
                            probe.now, load)
             counted == IF inc = "ok" THEN out.increments ELSE << >>
         IN  probe' = [probe EXCEPT
                         !.pc = "returned",
                         !.out = [err |-> out.err, response |-> out.response,
                                  increments |-> out.increments,
                                  load |-> load, inc |-> inc],
                         !.hits = [k \in DOMAIN probe.hits |->
                                     probe.hits[k]
                                       + Cardinality({n \in DOMAIN counted :
                                                        counted[n] = k})]]
    /\ UNCHANGED <<env, participants, conversations, messages, hits, sent,
                   calls, agent, faults, agentOps, handed>>

SpecResponder == InitResponder /\ [][CallProcess]_vars

\* Rules and recipients for responseBuilder.BuildFromRule: every response
\* type and one the builder does not know, a text with a placeholder, a
\* handoff message set or empty.
ResponseTypes == {"text", "template", "handoff", "card"}
BuilderTexts == {Empty, <<"H", "i">>, <<"H", "i", " ", "{", "n", "}">>}
BuilderMessages == {Empty, <<"W", "a", "i", "t">>}
Recipients == {"", "u1", "u2"}

InitBuilder ==
    /\ NoDeliveries
    /\ \E rt \in ResponseTypes, tx \in BuilderTexts, msg \in BuilderMessages,
          act \in BOOLEAN, to \in Recipients :
         probe = [NoProbe EXCEPT
                    !.pc = "call",
                    !.rules = << [BaseRule EXCEPT !.rtype = rt, !.text = tx,
                                                  !.message = msg,
                                                  !.active = act] >>,
                    !.recipient = to]

\* builder.BuildFromRule(rule, recipientID) is called: it reads the rule
\* through its pointer and writes only the message it returns.
CallBuildFromRule ==
    /\ probe.pc = "call"
    /\ probe' = [probe EXCEPT
                   !.pc = "returned",
                   !.out = BuildFromRule(probe.rules[1], probe.recipient)]
    /\ UNCHANGED <<env, participants, conversations, messages, hits, sent,
                   calls, agent, faults, agentOps, handed>>

SpecBuilder == InitBuilder /\ [][CallBuildFromRule]_vars

\* Conversation methods called one after another on one conversation held
\* in memory, from any status, with or without an assignee. The struct here
\* also carries AssignedTo and Metadata.ClosedReason.
MaxOps == 2
Agents == {1, 2}
CloseReason == <<"d", "o", "n", "e">>

\* Conversation.Assign
Assign(c, userID) ==
    [c EXCEPT !.assignedTo = userID,
              !.status = IF c.status = "open" THEN "pending" ELSE c.status]

\* Conversation.Close
Close(c, reason) == [c EXCEPT !.status = "closed", !.closedReason = reason]

\* Conversation.Reopen
Reopen(c) == [c EXCEPT !.status = "open", !.closedReason = Empty]

NoOperation == [op |-> "", before |-> NoConv, n |-> 0]

InitConversation ==
    /\ NoDeliveries
    /\ \E st \in Statuses, by \in {0} \cup Agents :
         probe = [NoProbe EXCEPT
                    !.pc = "conversation",
                    !.rules = [id |-> 1, participant |-> 1, status |-> st,
                               reason |-> IF st = "bot_paused"
                                          THEN AgentPauseReason ELSE Empty,
                               preview |-> Empty, lastAt |-> 0,
                               assignedTo |-> by,
                               closedReason |-> IF st = "closed"
                                                THEN CloseReason ELSE Empty],
                    !.out = NoOperation]

\* One more method call on the conversation: probe.rules holds the struct,
\* probe.out the method called, the struct before it and the calls so far.
Operate(op, after) ==
    /\ probe.pc = "conversation"
    /\ probe.out.n < MaxOps
    /\ probe' = [probe EXCEPT
                   !.rules = after,
                   !.out = [op |-> op, before |-> probe.rules,
                            n |-> probe.out.n + 1]]
    /\ UNCHANGED <<env, participants, conversations, messages, hits, sent,
                   calls, agent, faults, agentOps, handed>>

CallAssign == \E u \in Agents : Operate("Assign", Assign(probe.rules, u))
CallClose == Operate("Close", Close(probe.rules, CloseReason))
CallReopen == Operate("Reopen", Reopen(probe.rules))
CallPauseBot == Operate("PauseBot", PauseBot(probe.rules, AgentPauseReason))
CallResumeBot == Operate("ResumeBot", ResumeBot(probe.rules))

NextConversation ==
    \/ CallAssign
    \/ CallClose
    \/ CallReopen
    \/ CallPauseBot
    \/ CallResumeBot

SpecConversation == InitConversation /\ [][NextConversation]_vars

\* ----------------------------------------------------------- the registry
\* One Registry used by goroutines that call Register, Get, Has, GetAll and
\* Count. Here probe is the registry: the channels map (0 = no entry), the
\* RWMutex (the goroutine holding it for writing, those waiting to, those
\* holding it for reading), the Register calls in the order of their writes,
\* and each goroutine's call.
MaxGoroutines == 2
MaxRegistryCalls == 3
RegistryTypes == {"mock", "facebook"}
\* Two adapters of each type, as a test double beside the real one.
AdapterIDs == {1, 2}
Goroutines == 1..MaxGoroutines

NoAnswer == [channel |-> 0, err |-> FALSE, has |-> FALSE, types |-> << >>,
             count |-> 0]
IdleGoroutine ==
    [pc |-> "idle", op |-> "", type |-> "", id |-> 0, answer |-> NoAnswer,
     cands |-> {}, log |-> << >>]

InitRegistry ==
    /\ NoDeliveries
    /\ probe = [pc |-> "registry",
                channels |-> [t \in RegistryTypes |-> 0],
                writer |-> 0, waiting |-> {}, readers |-> {},
                history |-> << >>, begun |-> 0,
                g |-> [p \in Goroutines |-> IdleGoroutine]]

Untouched ==
    UNCHANGED <<env, participants, conversations, messages, hits, sent,
                calls, agent, faults, agentOps, handed>>

\* Goroutine p may start a call.
Free(p) ==
    /\ probe.pc = "registry"
    /\ probe.g[p].pc \in {"idle", "returned"}
    /\ probe.begun < MaxRegistryCalls

\* sync.RWMutex: Lock is granted when nobody holds the mutex; RLock when no
\* writer holds it or waits for it.
CanLockOverReaders == probe.writer = 0
CanLock == probe.writer = 0 /\ probe.readers = {}
CanRLock == probe.writer = 0 /\ probe.waiting = {}

\* A map write that keeps an entry already there.
PutIfAbsent(channels, type, id) ==
    IF channels[type] = 0 THEN [channels EXCEPT ![type] = id] ELSE channels

\* r.channels[channel.Type()] = channel
Put(channels, type, id) == [channels EXCEPT ![type] = id]

\* Register is called and reaches r.mu.Lock().
RegisterCall(p) ==
    /\ Free(p)
    /\ \E t \in RegistryTypes, a \in AdapterIDs :
         probe' = [probe EXCEPT
                     !.begun = @ + 1,
                     !.waiting = @ \cup {p},
                     !.g[p] = [IdleGoroutine EXCEPT !.pc = "lock",
                                 !.op = "Register", !.type = t, !.id = a]]
    /\ Untouched

\* r.mu.Lock() returns.
Lock(p) ==
    /\ probe.pc = "registry"
    /\ probe.g[p].pc = "lock"
    /\ CanLock
    /\ probe' = [probe EXCEPT !.writer = p, !.waiting = @ \ {p},
                              !.g[p].pc = "write"]
    /\ Untouched

\* The map write of Register; a Get that is under way on the same type may
\* come to see it.
RegisterWrite(p) ==
    /\ probe.pc = "registry"
    /\ probe.g[p].pc = "write"
    /\ LET me == probe.g[p]
       IN  probe' = [probe EXCEPT
                       !.channels = Put(@, me.type, me.id),
                       !.history = Append(@, [type |-> me.type, id |-> me.id]),
                       !.g = [q \in Goroutines |->
                                IF q = p THEN [me EXCEPT !.pc = "unlock"]
                                ELSE IF /\ probe.g[q].op = "Get"
                                        /\ probe.g[q].type = me.type
                                        /\ probe.g[q].pc \in {"rlock", "read"}
                                THEN [probe.g[q] EXCEPT !.cands = @ \cup {me.id}]
                                ELSE probe.g[q]]]
    /\ Untouched

\* The deferred r.mu.Unlock().
Unlock(p) ==
    /\ probe.pc = "registry"
    /\ probe.g[p].pc = "unlock"
    /\ probe' = [probe EXCEPT !.writer = 0, !.g[p].pc = "returned"]
    /\ Untouched

\* Get, Has, GetAll or Count is called and reaches r.mu.RLock().
ReadCall(p, op, t) ==
    /\ Free(p)
    /\ probe' = [probe EXCEPT
                   !.begun = @ + 1,
                   !.g[p] = [IdleGoroutine EXCEPT !.pc = "rlock", !.op = op,
                               !.type = t,
                               !.cands = IF op = "Get"
                                         THEN {probe.channels[t]} ELSE {}]]
    /\ Untouched

GetCall(p) == \E t \in RegistryTypes : ReadCall(p, "Get", t)
HasCall(p) == \E t \in RegistryTypes : ReadCall(p, "Has", t)
GetAllCall(p) == ReadCall(p, "GetAll", "")
CountCall(p) == ReadCall(p, "Count", "")

\* r.mu.RLock() returns.
RLock(p) ==
    /\ probe.pc = "registry"
    /\ probe.g[p].pc = "rlock"
    /\ CanRLock
    /\ probe' = [probe EXCEPT !.readers = @ \cup {p}, !.g[p].pc = "read"]
    /\ Untouched

\* The keys of the map, and the orders a range over them may take.
Keys(channels) == {t \in RegistryTypes : channels[t] # 0}
Orders(S) ==
    {s \in [1..Cardinality(S) -> S] :
        \A i, j \in 1..Cardinality(S) : i # j => s[i] # s[j]}

\* The body of a read under the read lock.
Read(p) ==
    /\ probe.pc = "registry"
    /\ probe.g[p].pc = "read"
    /\ LET me == probe.g[p]
           ch == probe.channels
       IN  \E order \in Orders(Keys(ch)) :
             probe' = [probe EXCEPT
                 !.g[p].pc = "runlock",
                 !.g[p].log = probe.history,
                 !.g[p].answer =
                    CASE me.op = "Get" ->
                           [NoAnswer EXCEPT !.channel = ch[me.type],
                                            !.err = ch[me.type] = 0]
                      [] me.op = "Has" ->
                           [NoAnswer EXCEPT !.has = ch[me.type] # 0]
                      [] me.op = "GetAll" -> [NoAnswer EXCEPT !.types = order]
                      [] OTHER ->
                           [NoAnswer EXCEPT !.count = Cardinality(Keys(ch))]]
    /\ Untouched

\* The deferred r.mu.RUnlock().
RUnlock(p) ==
    /\ probe.pc = "registry"
    /\ probe.g[p].pc = "runlock"
    /\ probe' = [probe EXCEPT !.readers = @ \ {p}, !.g[p].pc = "returned"]
    /\ Untouched

NextRegistry ==
    \/ \E p \in Goroutines : RegisterCall(p)
    \/ \E p \in Goroutines : Lock(p)
    \/ \E p \in Goroutines : RegisterWrite(p)
    \/ \E p \in Goroutines : Unlock(p)
    \/ \E p \in Goroutines : GetCall(p)
    \/ \E p \in Goroutines : HasCall(p)
    \/ \E p \in Goroutines : GetAllCall(p)
    \/ \E p \in Goroutines : CountCall(p)
    \/ \E p \in Goroutines : RLock(p)
    \/ \E p \in Goroutines : Read(p)
    \/ \E p \in Goroutines : RUnlock(p)

SpecRegistry == InitRegistry /\ [][NextRegistry]_vars

\* -------------------------------------------------------------- Normalize
\* Two webhook payloads of one channel are normalized one after the other:
\* the same payload twice, or two payloads that differ in the sender only.
\* Strings are sequences of characters, so that an id built with Sprintf is
\* the concatenation it is. A payload field is there as a string or is not.
Missing == [ok |-> FALSE, v |-> Empty]
Str(s) == [ok |-> TRUE, v |-> s]

\* strconv of a natural number, as %d prints it.
RECURSIVE Decimal(_)
Decimal(n) == IF n < 10 THEN <<Digit(n)>> ELSE Decimal(n \div 10) \o <<Digit(n % 10)>>

\* The readings time.Now() may give; two calls may read the same value.
ClockReadings == {5, 51}
AccountID == <<"a", "c", "c", "t">>
SenderIDs == {<<"a">>, <<"a", "_", "5">>}

NoMessage ==
    [channelType |-> "", cmid |-> Empty, sender |-> Empty, senderName |-> Empty,
     recipient |-> Empty, content |-> Empty, contentType |-> Empty,
     attachments |-> << >>, timestamp |-> 0]
NoNormalized == [called |-> FALSE, err |-> FALSE, msg |-> NoMessage, at |-> 0]

\* MockChannel.Normalize, with the two clock readings it takes.
MockNormalize(payload, nano, now) ==
    IF ~payload.sender.ok \/ payload.sender.v = Empty
    THEN [called |-> TRUE, err |-> TRUE, msg |-> NoMessage, at |-> nano]
    ELSE LET senderID == payload.sender.v
             content == IF payload.message.ok THEN payload.message.v ELSE Empty
             messageID ==
                 IF ~payload.messageID.ok \/ payload.messageID.v = Empty
                 THEN <<"m", "o", "c", "k", "_">> \o senderID \o <<"_">>
                          \o Decimal(nano)
                 ELSE payload.messageID.v
             attachments == payload.attachments
             contentType ==
                 IF Len(attachments) > 0 /\ content = Empty
                 THEN attachments[1] ELSE <<"t", "e", "x", "t">>
         IN  [called |-> TRUE, err |-> FALSE, at |-> nano,
              msg |-> [channelType |-> "mock",
                       cmid |-> messageID,
                       sender |-> senderID,
                       senderName |-> IF payload.senderName.ok
                                      THEN payload.senderName.v ELSE Empty,
                       recipient |-> AccountID,
                       content |-> content,
                       contentType |-> contentType,
                       attachments |-> attachments,
                       timestamp |-> IF payload.timestamp.ok
                                     THEN payload.timestamp.v ELSE now]]

\* FacebookChannel.Normalize: the first messaging event of the first entry.
FacebookNormalize(payload) ==
    IF payload.object # "page" \/ ~payload.events
    THEN [called |-> TRUE, err |-> TRUE, msg |-> NoMessage,
          at |-> payload.timestamp]
    ELSE LET m == payload.message
             base == [NoMessage EXCEPT
                        !.channelType = "facebook",
                        !.sender = payload.sender.v,
                        !.recipient = payload.recipient,
                        !.timestamp = payload.timestamp]
             types == SelectSeq(m.attachments, LAMBDA t : t # Empty)
             withMessage ==
                 IF m.present
                 THEN [base EXCEPT
                         !.cmid = m.mid,
                         !.content = IF m.quickReply.ok THEN m.quickReply.v
                                     ELSE m.text,
                         !.contentType = IF Len(types) > 0 THEN types[1]
                                         ELSE <<"t", "e", "x", "t">>,
                         !.attachments = m.attachments]
                 ELSE base
             withPostback ==
                 IF payload.postback.ok
                 THEN [withMessage EXCEPT
                         !.content = payload.postback.v,
                         !.contentType = <<"p", "o", "s", "t", "b", "a", "c", "k">>,
                         !.cmid = <<"p", "o", "s", "t", "b", "a", "c", "k", "_">>
                                      \o Decimal(payload.timestamp)]
                 ELSE withMessage
         IN  [called |-> TRUE, err |-> FALSE, msg |-> withPostback,
              at |-> payload.timestamp]

Hello == <<"H", "i">>
Image == <<"i", "m", "a", "g", "e">>

MockPayloads ==
    [sender : {Missing, Str(Empty)} \cup {Str(s) : s \in SenderIDs},
     message : {Missing, Str(Hello)},
     messageID : {Missing, Str(Empty), Str(<<"m", "1">>)},
     senderName : {Missing, Str(<<"A", "n", "n">>)},
     timestamp : {[ok |-> FALSE, v |-> 0], [ok |-> TRUE, v |-> 7]},
     attachments : {<< >>, <<Image>>}]

NoFBMessage ==
    [present |-> FALSE, mid |-> Empty, text |-> Empty, attachments |-> << >>,
     quickReply |-> Missing]
FBMessages ==
    {NoFBMessage,
     [NoFBMessage EXCEPT !.present = TRUE, !.text = Hello],
     [NoFBMessage EXCEPT !.present = TRUE, !.mid = <<"m", "1">>,
                         !.attachments = <<Image>>],
     [NoFBMessage EXCEPT !.present = TRUE, !.mid = <<"m", "1">>,
                         !.text = Hello,
                         !.quickReply = Str(<<"y", "e", "s">>)]}

FacebookPayloads ==
    [object : {"page", "user"},
     events : BOOLEAN,
     sender : {Missing, Str(Empty)} \cup {Str(s) : s \in SenderIDs},
     recipient : {<<"p", "1">>},
     timestamp : ClockReadings,
     message : FBMessages,
     postback : {Missing, Str(<<"g", "o">>)}]

InitNormalize ==
    /\ NoDeliveries
    /\ \E type \in Registered :
       \E first \in IF type = "mock" THEN MockPayloads ELSE FacebookPayloads :
       \E other \in {first.sender} \cup {Str(s) : s \in SenderIDs} :
         probe = [pc |-> "normalize", type |-> type,
                  payloads |-> <<first, [first EXCEPT !.sender = other]>>,
                  results |-> <<NoNormalized, NoNormalized>>]

\* The next of the two calls, on the channel the payloads are for.
NextCall ==
    IF ~probe.results[1].called THEN 1
    ELSE IF ~probe.results[2].called THEN 2 ELSE 0

CallMockNormalize ==
    /\ probe.pc = "normalize"
    /\ probe.type = "mock"
    /\ NextCall # 0
    /\ \E nano \in ClockReadings, now \in ClockReadings :
         /\ \A k \in 1..(NextCall - 1) : probe.results[k].at <= nano
         /\ probe' = [probe EXCEPT
                        !.results[NextCall] =
                            MockNormalize(probe.payloads[NextCall], nano, now)]
    /\ Untouched

CallFacebookNormalize ==
    /\ probe.pc = "normalize"
    /\ probe.type = "facebook"
    /\ NextCall # 0
    /\ probe' = [probe EXCEPT
                   !.results[NextCall] =
                       FacebookNormalize(probe.payloads[NextCall])]
    /\ Untouched

NextNormalize == CallMockNormalize \/ CallFacebookNormalize

SpecNormalize == InitNormalize /\ [][NextNormalize]_vars

\* ------------------------------------------------------------------- Send
\* One Send of an adapter on its own: any recipient and content, credentials
\* with the token, with an empty one or without the key, and the Graph API
\* answering 200 with or without a message_id, answering another status, or
\* not answering.
CredentialSets == {"none", "empty", "token"}
GraphOutcomes == {"ok", "blank", "refused", "fail"}

\* credentials["page_access_token"]
AccessToken(credentials) == IF credentials = "token" THEN "tok" ELSE ""

InitSend ==
    /\ NoDeliveries
    /\ \E type \in Registered, to \in {"", "u1"}, content \in {Empty, Hello},
          creds \in CredentialSets, http \in GraphOutcomes :
         probe = [pc |-> "send", type |-> type,
                  msg |-> [to |-> to, contentType |-> "text",
                           content |-> content],
                  credentials |-> creds, http |-> http,
                  sentMessages |-> << >>, out |-> Refused]

\* MockChannel.Send: a message it takes is appended to sentMessages.
CallMockSend ==
    /\ probe.pc = "send"
    /\ probe.type = "mock"
    /\ LET r == SendResult("mock", probe.msg, AccessToken(probe.credentials),
                           probe.http, 1)
       IN  probe' = [probe EXCEPT
                       !.pc = "returned",
                       !.out = r,
                       !.sentMessages = IF r.handed THEN Append(@, probe.msg)
                                        ELSE @]
    /\ Untouched

\* FacebookChannel.Send
CallFacebookSend ==
    /\ probe.pc = "send"
    /\ probe.type = "facebook"
    /\ probe' = [probe EXCEPT
                   !.pc = "returned",
                   !.out = SendResult("facebook", probe.msg,
                                      AccessToken(probe.credentials),
                                      probe.http, 1)]
    /\ Untouched

NextSend == CallMockSend \/ CallFacebookSend

SpecSend == InitSend /\ [][NextSend]_vars

\* ------------------------------------------------------------- properties
Done(d) == calls[d].pc = "done"

\* The steps whose failure ProcessInbound returns, and those it absorbs.
RequiredSteps == {"participant", "conversation", "message"}
BestEffortSteps == {"summary", "rules", "hit", "pause", "bot_message",
                    "account", "send", "backfill"}

RECURSIVE SumUpTo(_, _)
SumUpTo(f, n) == IF n = 0 THEN 0 ELSE f[n] + SumUpTo(f, n - 1)

\* Stored rows of a conversation by direction, conversations of a participant.
RowsOf(cid, direction) ==
    {i \in 1..Len(messages) :
        messages[i].conv = cid /\ messages[i].direction = direction}
ConversationsOf(pid) ==
    {i \in 1..Len(conversations) : conversations[i].participant = pid}
ActiveOf(pid) ==
    {i \in ConversationsOf(pid) : conversations[i].status \in ActiveStatuses}

\* Delivery d has gone through step 6 of ProcessInbound (the bot step) or is
\* past its decision.
PastBot(d) ==
    \/ calls[d].pc \in {"pause", "bot_message", "send", "backfill"}
    \/ Done(d) /\ calls[d].err = ""

\* Delivery e ran after delivery d had returned, for the same sender, d's
\* conversation has not been closed since d resolved it, and nothing failed.
C1Case(d, e) ==
    /\ Done(e)
    /\ d \in calls[e].after
    /\ calls[d].in.sender = calls[e].in.sender
    /\ calls[d].live
    /\ faults = 0

\* C1: of two deliveries made one after the other for the same sender, with
\* no close of the conversation in between and no persistence failure, the
\* second returns the participant id and the conversation id of the first,
\* with ParticipantCreated = false and ConversationCreated = false.
C1_SequentialSingleton ==
    \A d, e \in DOMAIN calls :
        C1Case(d, e) =>
            /\ calls[e].result.participantID = calls[d].result.participantID
            /\ calls[e].result.conversationID = calls[d].result.conversationID
            /\ calls[e].result.conversationID # 0
            /\ ~calls[e].result.participantCreated
            /\ ~calls[e].result.conversationCreated

\* A second delivery has returned after a first one of the same sender that
\* had created the conversation.
C1_Witness ==
    \E d, e \in DOMAIN calls :
        C1Case(d, e) /\ calls[d].result.conversationCreated

\* C2: overlapping deliveries of one participant never leave more than one
\* conversation of that participant in an active status (open, pending,
\* bot_paused).
C2_OneActiveConversation ==
    \A pid \in 1..Len(participants) : Cardinality(ActiveOf(pid)) <= 1

\* C3: two deliveries with the same channel type and the same non-empty
\* provider message id never yield two inbound rows carrying that id, and
\* the later one triggers no bot reply.
C3_RedeliverySuppressed ==
    \A d, e \in DOMAIN calls :
        ( /\ d \in calls[e].after
          /\ calls[d].in.type = calls[e].in.type
          /\ calls[d].in.cmid = calls[e].in.cmid
          /\ calls[d].in.cmid # "" )
        => /\ Cardinality({i \in 1..Len(messages) :
                              /\ messages[i].direction = "in"
                              /\ messages[i].cmid = calls[d].in.cmid}) <= 1
           /\ calls[e].out = 0
           /\ ~calls[e].result.botReplied

\* The highest-priority active rule is a keyword rule with a text response.
TopRuleIsText ==
    /\ ActiveRules # << >>
    /\ IsKeywordTrigger(ActiveRules[1])
    /\ ActiveRules[1].rtype = "text"

\* Delivery d, over the mock channel, of a sender no other delivery carries,
\* with a content the top rule matches, has returned and no step of it failed.
C4Case(d) ==
    /\ Done(d)
    /\ calls[d].in.type = "mock"
    /\ \A e \in DOMAIN calls \ {d} : calls[e].in.sender # calls[d].in.sender
    /\ TopRuleIsText
    /\ MatchesKeyword(ActiveRules[1], calls[d].in.content)
    /\ calls[d].failed = {}

\* C4: for a new sender and a content the top keyword/text rule matches, one
\* delivery over the mock channel produces exactly one participant
\* (created), one conversation created with status open, one inbound customer
\* message, one bot-authored outbound message with the rule's text,
\* BotReplied = true and BotHandoff = false.
C4_EndToEnd ==
    \A d \in DOMAIN calls :
        C4Case(d) =>
            LET r == calls[d].result
                cid == r.conversationID
            IN  /\ r.participantCreated
                /\ ParticipantsOf(calls[d].in.sender) = {r.participantID}
                /\ r.conversationCreated
                /\ ConversationsOf(r.participantID) = {cid}
                /\ calls[d].seen = "open"
                /\ agentOps = 0 => conversations[cid].status = "open"
                /\ RowsOf(cid, "in") = {r.messageID}
                /\ messages[r.messageID].senderType = "customer"
                /\ messages[r.messageID].content = calls[d].in.content
                /\ RowsOf(cid, "out") = {calls[d].out}
                /\ calls[d].out # 0
                /\ messages[calls[d].out].senderType = "bot"
                /\ messages[calls[d].out].content = ActiveRules[1].text
                /\ r.botReplied
                /\ ~r.botHandoff
                /\ r.responseSent.content = ActiveRules[1].text

\* Such a delivery has returned.
C4_Witness == \E d \in DOMAIN calls : C4Case(d)

\* C5: a failed participant, conversation or inbound message creation ends
\* the delivery with that error and no result; the responder is not invoked,
\* no hit count changes, nothing is sent and nothing more is stored: every
\* inbound row, hit and send belongs to a delivery that got that far.
C5_RequiredFailureAborts ==
    /\ \A d \in DOMAIN calls :
          calls[d].failed \cap RequiredSteps # {} =>
              /\ Done(d)
              /\ calls[d].err \in calls[d].failed \cap RequiredSteps
              /\ calls[d].result = NoResult
              /\ ~calls[d].invoked
              /\ calls[d].hit = 0
              /\ calls[d].sends = 0
              /\ calls[d].out = 0
    /\ Cardinality({i \in 1..Len(messages) : messages[i].direction = "in"})
          = Cardinality({d \in DOMAIN calls : calls[d].result.messageID # 0})
    /\ SumUpTo(hits, Len(hits))
          = Cardinality({d \in DOMAIN calls : calls[d].hit # 0})
    /\ Len(sent) <= Cardinality({d \in DOMAIN calls : calls[d].sends > 0})

\* A delivery ended with the conversation insert failing, its participant
\* being stored.
C5_Witness ==
    \E d \in DOMAIN calls :
        /\ calls[d].err = "conversation"
        /\ ParticipantsOf(calls[d].in.sender) # {}

\* C6: a delivery whose channel type is not registered stores nothing (no
\* participant, conversation, inbound or bot message, no pause) and ends
\* with the unregistered-channel error and no result.
C6_UnregisteredAborts ==
    \A d \in DOMAIN calls :
        (calls[d].pc # "idle" /\ ~Has(calls[d].in.type)) =>
            /\ ~calls[d].result.participantCreated
            /\ ~calls[d].result.conversationCreated
            /\ calls[d].result.messageID = 0
            /\ calls[d].out = 0
            /\ ~calls[d].handoff
            /\ Done(d) => calls[d].err = "unregistered"

C8_ResponderIffNotPaused ==
    \A d \in DOMAIN calls :
        /\ calls[d].invoked => PastBot(d)
        /\ PastBot(d) =>
              /\ calls[d].invoked <=> calls[d].seen # "bot_paused"
              /\ calls[d].seen = "bot_paused" =>
                    /\ Done(d)
                    /\ messages[calls[d].result.messageID]
                          = InboundRow(calls[d].result.conversationID,
                                       calls[d].in)
                    /\ calls[d].bot = NoResponse
                    /\ calls[d].hit = 0
                    /\ calls[d].out = 0
                    /\ calls[d].sends = 0
                    /\ ~calls[d].result.botReplied
                    /\ ~calls[d].result.botHandoff

\* A delivery has returned for a conversation it found bot_paused.
C8_Witness ==
    \E d \in DOMAIN calls :
        Done(d) /\ calls[d].err = "" /\ calls[d].seen = "bot_paused"

\* Delivery d saves the handoff in this step.
HandoffPersisted(d) ==
    /\ calls[d].pc = "pause"
    /\ calls'[d].pc # "pause"
    /\ faults' = faults

\* C9: a persisted handoff leaves the stored conversation bot_paused with
\* the responder's reason, and, nothing having failed, a delivery started for
\* the same participant after it and before an agent resumed or closed the
\* conversation creates no bot message and returns BotReplied = false.
C9_HandoffSilencesBot ==
    [][ /\ \A d \in DOMAIN calls :
             HandoffPersisted(d) =>
                 /\ conversations'[calls[d].conv.id].status = "bot_paused"
                 /\ conversations'[calls[d].conv.id].reason = calls[d].bot.reason
        /\ \A d \in DOMAIN calls :
             (calls'[d].late /\ faults' = 0) =>
                 /\ calls'[d].out = 0
                 /\ ~calls'[d].result.botReplied ]_vars

\* This step is the save of an agent request that resumes or closes
\* conversation i.
ManualStep(i) ==
    /\ agent.pc = "loaded"
    /\ agent' = IdleAgent
    /\ agent.op \in ManualRequests
    /\ agent.conv.id = i

\* C10: a stored bot_paused status stays until an agent resumes or closes
\* the conversation, whatever deliveries and agent pause requests overlap.
C10_PausedStaysPaused ==
    [][ \A i \in 1..Len(conversations) :
            conversations[i].status = "bot_paused" =>
                \/ conversations'[i].status = "bot_paused"
                \/ ManualStep(i) ]_vars

\* The adapter's Send has reported success to delivery d.
SendSucceeded(d) ==
    \/ calls[d].pc = "backfill"
    \/ Done(d) /\ calls[d].result.botReplied

\* Delivery d, whose Send reported failure, as ProcessInbound leaves it.
C11Left(d) ==
    "send" \in calls[d].failed =>
        /\ Done(d)
        /\ calls[d].err = ""
        /\ calls[d].result.messageID # 0
        /\ calls[d].sends = 1
        /\ ~calls[d].result.botReplied
        /\ calls[d].result.botHandoff = calls[d].bot.shouldHandoff
        /\ calls[d].out # 0 =>
              /\ messages[calls[d].out].senderType = "bot"
              /\ messages[calls[d].out].content = calls[d].bot.response.content
              /\ messages[calls[d].out].cmid = ""

\* C11: when Send reports failure for a bot reply, the bot message stored
\* for it stays stored without a provider id, the send is made once and is
\* not escalated, ProcessInbound returns a result without error, and the
\* send step (failed or not) writes nothing to the conversation.
C11_SendFailureAbsorbed ==
    [][ /\ \A d \in DOMAIN calls : C11Left(d)'
        /\ \A d \in DOMAIN calls :
              (calls[d].pc \in {"send", "backfill"} /\ calls'[d].pc # calls[d].pc)
                  => conversations' = conversations ]_vars

\* A delivery has returned after its Send failed, its bot message stored.
C11_Witness ==
    \E d \in DOMAIN calls :
        Done(d) /\ "send" \in calls[d].failed /\ calls[d].out # 0

\* C12: when Send has reported success, the stored bot message carries the
\* non-empty provider id of the SendResult; and a bot message carries a
\* provider id only if its Send succeeded.
C12_ProviderIdBackfilled ==
    /\ \A d \in DOMAIN calls :
          (Done(d) /\ calls[d].result.botReplied) =>
              /\ calls[d].out # 0
              /\ messages[calls[d].out].cmid # ""
              /\ messages[calls[d].out].cmid = calls[d].outCmid
    /\ \A i \in 1..Len(messages) :
          (messages[i].senderType = "bot" /\ messages[i].cmid # "") =>
              \E d \in DOMAIN calls : calls[d].out = i /\ SendSucceeded(d)

\* C13: the store holds at most one participant per sender of the channel
\* account; the deliveries of one sender return the same ParticipantID and
\* at most one of them reports ParticipantCreated.
C13_OneParticipantPerSender ==
    /\ \A i, j \in 1..Len(participants) :
          participants[i].user = participants[j].user => i = j
    /\ \A d, e \in DOMAIN calls :
          ( /\ Done(d) /\ Done(e) /\ calls[d].err = "" /\ calls[e].err = ""
            /\ calls[d].in.sender = calls[e].in.sender /\ d # e )
          => /\ calls[d].result.participantID = calls[e].result.participantID
             /\ ~(calls[d].result.participantCreated
                    /\ calls[e].result.participantCreated)


\* The rules of the call that the first pass accepts: active, neither
\* fallback nor intent, and the trigger matches.
FirstPass ==
    {i \in 1..Len(probe.rules) :
        LET r == probe.rules[i]
        IN  /\ r.active
            /\ \/ r.trigger = "keyword" /\ MatchesKeyword(r, probe.content)
               \/ r.trigger = "time_window" /\ MatchesTimeWindow(r, probe.now)}

\* The active fallback rules of the call.
Fallbacks ==
    {i \in 1..Len(probe.rules) :
        probe.rules[i].active /\ probe.rules[i].trigger = "fallback"}

\* The rules were supplied by descending priority.
Descending ==
    \A i, j \in 1..Len(probe.rules) :
        i < j => probe.rules[i].priority >= probe.rules[j].priority

\* C14: when some rule is active, not a fallback and its trigger matches,
\* Match returns the first such rule in the caller's order with confidence
\* 1.0, whatever the priorities; when the rules were supplied by descending
\* priority no such rule has a strictly higher priority than the one
\* returned; an inactive rule or an intent rule is never returned.
C14_FirstMatchInCallerOrder ==
    probe.pc = "returned" =>
        /\ FirstPass # {} =>
              /\ probe.out.matched
              /\ probe.out.rule \in FirstPass
              /\ \A j \in FirstPass : probe.out.rule <= j
              /\ probe.out.confidence = 10
              /\ Descending =>
                    \A j \in FirstPass :
                        probe.rules[j].priority
                            <= probe.rules[probe.out.rule].priority
        /\ probe.out.matched =>
              /\ probe.rules[probe.out.rule].active
              /\ probe.rules[probe.out.rule].trigger # "intent"

\* Rules of priorities 90, 50 and 10, of which the first and the last match
\* the content: the rule of priority 90 is returned.
C14_Witness ==
    /\ probe.pc = "returned"
    /\ Len(probe.rules) = 3
    /\ probe.rules[1].priority = 90
    /\ probe.rules[2].priority = 50
    /\ probe.rules[3].priority = 10
    /\ FirstPass = {1, 3}
    /\ probe.out.matched
    /\ probe.out.rule = 1

\* C15: Match returns a fallback rule only when the first pass accepts no
\* rule; it then returns the first active fallback in the caller's order
\* with confidence 0.5, whatever its priority; matched is false exactly when
\* the first pass accepts no rule and there is no active fallback.
C15_FallbackLast ==
    probe.pc = "returned" =>
        /\ (probe.out.matched
                /\ probe.rules[probe.out.rule].trigger = "fallback")
              => FirstPass = {}
        /\ (FirstPass = {} /\ Fallbacks # {}) =>
              /\ probe.out.matched
              /\ probe.out.rule \in Fallbacks
              /\ \A j \in Fallbacks : probe.out.rule <= j
              /\ probe.out.confidence = 5
        /\ ~probe.out.matched <=> (FirstPass = {} /\ Fallbacks = {})

\* The fallback of priority 5 is returned although an active fallback of
\* priority 95 follows it.
C15_Witness ==
    /\ probe.pc = "returned"
    /\ probe.out.matched
    /\ probe.out.rule = 1
    /\ probe.out.confidence = 5
    /\ probe.rules[1].priority = 5
    /\ \E j \in Fallbacks : probe.rules[j].priority = 95

\* The minute of the day an "HH:mm" string names.
MinuteOf(hhmm) ==
    (CharRank(hhmm[1]) * 10 + CharRank(hhmm[2])) * 60
        + CharRank(hhmm[4]) * 10 + CharRank(hhmm[5])

\* The wall clock of an instant in a rule's zone: UTC unless the zone is
\* seven hours east.
WallClock(now, tz) ==
    LET shift == IF tz = "Asia/Ho_Chi_Minh" THEN 7 * 60 ELSE 0
        total == now.minute + shift
    IN  [weekday |-> (now.weekday + total \div (24 * 60)) % 7,
         minute |-> total % (24 * 60)]

\* C16: a time_window rule matches at local time t, the wall clock in the
\* rule's zone (UTC when the zone cannot be loaded), iff the local weekday is
\* in the day list (an empty list admits every day) and either
\* start <= end and start <= t <= end, or start > end and (t >= start or
\* t <= end); 22:00-06:00 matches 23:30 and 02:00 and not 12:00.
C16_TimeWindowMatch ==
    probe.pc = "returned" =>
        LET r == probe.rules[1]
            local == WallClock(probe.now, r.timezone)
            t == local.minute
            start == MinuteOf(r.startTime)
            end == MinuteOf(r.endTime)
        IN  /\ probe.out <=>
                  /\ r.trigger = "time_window"
                  /\ r.days = {} \/ local.weekday \in r.days
                  /\ \/ start <= end /\ start <= t /\ t <= end
                     \/ start > end /\ (t >= start \/ t <= end)
            /\ (/\ r.trigger = "time_window"
                /\ start = 22 * 60 /\ end = 6 * 60
                /\ r.days = {} /\ r.timezone = "")
               => (probe.out <=> probe.now.minute \in {23 * 60 + 30, 2 * 60})

\* A 22:00-06:00 rule in a zone east of UTC has matched an instant whose
\* local time is 00:00 on the next day, a day of its list.
C16_Witness ==
    /\ probe.pc = "returned"
    /\ probe.out = TRUE
    /\ probe.rules[1].timezone = "Asia/Ho_Chi_Minh"
    /\ MinuteOf(probe.rules[1].startTime) = 22 * 60
    /\ MinuteOf(probe.rules[1].endTime) = 6 * 60
    /\ probe.now = [weekday |-> 0, minute |-> 1020]
    /\ probe.rules[1].days = {1}

\* C17: a keyword rule matches a content iff some configured keyword k,
\* both sides lower-cased, equals the content (mode exact) or is a substring
\* of it (mode contains or empty); any other mode, an empty keyword list or
\* another trigger type never matches.
C17_KeywordMatch ==
    probe.pc = "returned" =>
        LET r == probe.rules[1]
            lower == ToLower(probe.content)
            mode == r.matchType
        IN  probe.out <=>
              /\ r.trigger = "keyword"
              /\ mode \in {"exact", "contains", ""}
              /\ \E i \in 1..Len(r.keywords) :
                    IF mode = "exact"
                    THEN lower = ToLower(r.keywords[i])
                    ELSE \E a \in 1..(Len(lower) + 1), b \in 0..Len(lower) :
                            SubSeq(lower, a, b) = ToLower(r.keywords[i])

\* An exact rule has matched a content that differs from its keyword in
\* case only.
C17_Witness ==
    /\ probe.pc = "returned"
    /\ probe.out = TRUE
    /\ probe.rules[1].matchType = "exact"
    /\ probe.content \notin {probe.rules[1].keywords[i] :
                               i \in 1..Len(probe.rules[1].keywords)}

\* C18: when Match returns a keyword rule, MatchedKeyword is the first
\* keyword of the rule's list that matches the message content under the
\* rule's match mode.
C18_MatchedKeywordIsTheMatch ==
    (/\ probe.pc = "returned"
     /\ probe.out.matched
     /\ probe.rules[probe.out.rule].trigger = "keyword") =>
        LET r == probe.rules[probe.out.rule]
            matching == {i \in 1..Len(r.keywords) :
                            KeywordHits(r, probe.content, r.keywords[i])}
        IN  \E i \in matching :
                /\ \A j \in matching : i <= j
                /\ probe.out.keyword = r.keywords[i]

\* The active rules of the responder's call of which one can be matched: the
\* trigger matches, or the rule is a fallback.
Matchable ==
    {k \in 1..Len(probe.rules) :
        LET r == probe.rules[k]
        IN  /\ r.active
            /\ \/ r.trigger = "keyword" /\ MatchesKeyword(r, probe.content)
               \/ r.trigger = "time_window" /\ MatchesTimeWindow(r, probe.now)
               \/ r.trigger = "fallback"}

\* The rule the returned BotResponse names as MatchedRule.
MatchedRule ==
    SelectSeq(probe.rules, LAMBDA r : r.active)[probe.out.response.rule]

\* C19: for a matched handoff rule Process returns shouldHandoff = true with
\* handoffReason the configured message, or "Customer requested agent" when
\* that is empty, and shouldReply = true with the built response iff the
\* message is non-empty; for a matched text or template rule it returns
\* shouldReply = true with the built response and shouldHandoff = false.
C19_ResponseByType ==
    (probe.pc = "returned" /\ ~probe.out.err /\ Matchable # {}) =>
        LET b == probe.out.response
            r == MatchedRule
        IN  /\ r.rtype = "handoff" =>
                  /\ b.shouldHandoff
                  /\ b.reason = IF r.message = << >>
                                THEN <<"C", "u", "s", "t", "o", "m", "e", "r",
                                       " ", "r", "e", "q", "u", "e", "s", "t",
                                       "e", "d", " ", "a", "g", "e", "n", "t">>
                                ELSE r.message
                  /\ b.shouldReply <=> r.message # << >>
                  /\ b.shouldReply =>
                        b.response = [to |-> probe.recipient,
                                      contentType |-> "text",
                                      content |-> r.message]
            /\ r.rtype \in {"text", "template"} =>
                  /\ b.shouldReply
                  /\ ~b.shouldHandoff
                  /\ b.response = [to |-> probe.recipient,
                                   contentType |-> "text",
                                   content |-> r.text]

\* A handoff rule without a message has matched: the handoff is asked for
\* with the default reason and nothing is to be sent.
C19_Witness ==
    /\ probe.pc = "returned"
    /\ ~probe.out.err
    /\ Matchable # {}
    /\ MatchedRule.rtype = "handoff"
    /\ MatchedRule.message = << >>
    /\ probe.out.response.shouldHandoff
    /\ ~probe.out.response.shouldReply

\* C20: on every match Process asks once for the increment of the matched
\* rule's hit count and of no other, and a persisted increment adds one to
\* that rule alone; with no active rule or no match it changes no hit count
\* and returns shouldReply = false without error; a failed increment leaves
\* the returned BotResponse as it is when the increment succeeds.
C20_HitCountFrame ==
    probe.pc = "returned" =>
        /\ (probe.out.load = "ok" /\ Matchable # {}) =>
              /\ ~probe.out.err
              /\ \E k \in 1..Len(probe.rules) :
                    /\ probe.rules[k] = MatchedRule
                    /\ probe.out.increments = <<k>>
                    /\ probe.out.inc = "ok" =>
                          probe.hits = [j \in 1..Len(probe.rules) |->
                                          IF j = k THEN 1 ELSE 0]
              /\ probe.out.response =
                    Process(probe.rules, probe.content, probe.recipient,
                            probe.now, "ok").response
              /\ probe.out.response.rule # 0
        /\ (probe.out.load = "ok" /\ Matchable = {}) =>
              /\ ~probe.out.err
              /\ ~probe.out.response.shouldReply
              /\ probe.out.increments = << >>
              /\ \A j \in 1..Len(probe.rules) : probe.hits[j] = 0

\* The second row of the table has matched behind an inactive first row and
\* its hit count, and no other, went from 0 to 1.
C20_Witness ==
    /\ probe.pc = "returned"
    /\ probe.out.load = "ok"
    /\ probe.out.inc = "ok"
    /\ Len(probe.rules) >= 3
    /\ ~probe.rules[1].active
    /\ probe.hits[2] = 1
    /\ \A j \in 1..Len(probe.rules) : j # 2 => probe.hits[j] = 0

\* C21: BuildFromRule returns a message to recipientID of content type text
\* whose content is the rule's text for the response types text and template,
\* placeholders left as they are, and for handoff the configured message or,
\* when that is empty, the fixed default message; the rule is not modified.
C21_BuildFromRulePure ==
    [][probe.pc = "call" =>
         LET r == probe.rules[1]
             out == probe'.out
         IN  /\ probe'.rules = probe.rules
             /\ out.to = probe.recipient
             /\ out.contentType = "text"
             /\ r.rtype \in {"text", "template"} => out.content = r.text
             /\ r.rtype = "handoff" =>
                   out.content = IF r.message = << >>
                                 THEN DefaultHandoffMessage ELSE r.message]_vars

\* A handoff rule without a message was built into the default message.
C21_Witness ==
    /\ probe.pc = "returned"
    /\ probe.rules[1].rtype = "handoff"
    /\ probe.rules[1].message = << >>
    /\ probe.recipient = "u2"
    /\ probe.out.to = "u2"
    /\ probe.out.content = DefaultHandoffMessage

\* C22: every status change a Conversation method makes is a specified
\* transition: Assign only open -> pending (otherwise it sets the assignee
\* and keeps the status), PauseBot any -> bot_paused, ResumeBot
\* bot_paused -> open, Close any -> closed, Reopen closed -> open.
C22_SpecifiedTransitions ==
    (probe.pc = "conversation" /\ probe.out.n > 0) =>
        LET from == probe.out.before.status
            to == probe.rules.status
            op == probe.out.op
        IN  /\ op = "Assign" =>
                  /\ probe.rules.assignedTo \in Agents
                  /\ to = IF from = "open" THEN "pending" ELSE from
            /\ op = "PauseBot" => to = "bot_paused"
            /\ op = "Close" => to = "closed"
            /\ (op = "ResumeBot" /\ to # from) =>
                  (from = "bot_paused" /\ to = "open")
            /\ (op = "Reopen" /\ to # from) =>
                  (from = "closed" /\ to = "open")

\* This step is the save of an agent request that reopens conversation i
\* (PATCH with status "open").
ReopenStep(i) ==
    /\ agent.pc = "loaded"
    /\ agent' = IdleAgent
    /\ agent.op = "reopen"
    /\ agent.conv.id = i

\* C23: a conversation the pipeline creates starts in status open, and a
\* stored status closed stays until the conversation is explicitly reopened:
\* no delivery, no bot pause or resume request and no ProcessInbound call
\* that was in flight when it was closed changes it.
C23_ClosedUntilReopened ==
    [][ /\ \A i \in 1..Len(conversations') :
             i > Len(conversations) => conversations'[i].status = "open"
        /\ \A i \in 1..Len(conversations) :
             conversations[i].status = "closed" =>
                 \/ conversations'[i].status = "closed"
                 \/ ReopenStep(i) ]_vars

\* The adapter most recently registered under type t in a sequence of
\* Register calls, 0 when there is none.
RECURSIVE LastOf(_, _)
LastOf(log, t) ==
    IF log = << >> THEN 0
    ELSE IF log[Len(log)].type = t THEN log[Len(log)].id
    ELSE LastOf(SubSeq(log, 1, Len(log) - 1), t)

\* Goroutine p has read the map in a call of op.
HasRead(p, op) ==
    /\ probe.g[p].op = op
    /\ probe.g[p].pc \in {"runlock", "returned"}

\* C24: after any sequence of Register calls, Get(t) returns the adapter most
\* recently registered under t and an error exactly when none ever was;
\* Has(t) is true exactly when Get(t) succeeds; GetAll holds exactly the
\* registered types, each once; Count is the number of distinct registered
\* types.
C24_LastWriterWins ==
    \A p \in Goroutines :
        LET me == probe.g[p]
            types == {t \in RegistryTypes : LastOf(me.log, t) # 0}
        IN  /\ HasRead(p, "Get") =>
                  /\ me.answer.channel = LastOf(me.log, me.type)
                  /\ me.answer.err <=> LastOf(me.log, me.type) = 0
            /\ HasRead(p, "Has") =>
                  (me.answer.has <=> LastOf(me.log, me.type) # 0)
            /\ HasRead(p, "GetAll") =>
                  /\ {me.answer.types[i] : i \in 1..Len(me.answer.types)} = types
                  /\ Len(me.answer.types) = Cardinality(types)
            /\ HasRead(p, "Count") => me.answer.count = Cardinality(types)

\* A Get has returned the second adapter registered under its type, the
\* first one having been overwritten.
C24_Witness ==
    \E p \in Goroutines :
        /\ HasRead(p, "Get")
        /\ probe.g[p].answer.channel = 2
        /\ Len(probe.g[p].log) = 2
        /\ probe.g[p].log[1] = [type |-> probe.g[p].type, id |-> 1]
        /\ probe.g[p].log[2] = [type |-> probe.g[p].type, id |-> 2]

HasSender(k) ==
    probe.payloads[k].sender.ok /\ probe.payloads[k].sender.v # << >>

\* C26: Normalize of either adapter returns an error and no message when the
\* payload carries no sender identifier, so that every InboundMessage it
\* returns, and the handler passes on to ProcessInbound, has a non-empty
\* SenderID.
C26_SenderRequired ==
    \A k \in 1..2 :
        probe.results[k].called =>
            /\ ~HasSender(k) =>
                  (probe.results[k].err /\ probe.results[k].msg = NoMessage)
            /\ ~probe.results[k].err => probe.results[k].msg.sender # << >>

\* Call k has returned a message.
Normalized(k) == probe.results[k].called /\ ~probe.results[k].err

\* The payload of call k omits the provider's message id: no message_id or
\* an empty one (mock), a postback or a message without mid (Facebook).
OmitsMessageID(k) ==
    LET p == probe.payloads[k]
    IN  IF probe.type = "mock"
        THEN ~p.messageID.ok \/ p.messageID.v = << >>
        ELSE p.postback.ok \/ ~p.message.present \/ p.message.mid = << >>

\* C27: every InboundMessage Normalize returns has a non-empty
\* ChannelMessageID, and the ids it synthesizes for payloads that omit one
\* differ whenever the senders or the times differ.
C27_SynthesizedIdsDistinct ==
    /\ \A k \in 1..2 : Normalized(k) => probe.results[k].msg.cmid # << >>
    /\ (/\ Normalized(1) /\ Normalized(2)
        /\ OmitsMessageID(1) /\ OmitsMessageID(2)
        /\ \/ probe.results[1].msg.sender # probe.results[2].msg.sender
           \/ probe.results[1].at # probe.results[2].at)
       => probe.results[1].msg.cmid # probe.results[2].msg.cmid

\* C28: two Normalize calls of the mock adapter on the same well-formed
\* payload return messages equal in every field but the ChannelMessageID,
\* which is equal too when the payload has a message_id, and when it has none
\* differs between the two and is non-empty in both.
C28_NormalizeTwice ==
    (/\ probe.type = "mock"
     /\ probe.payloads[1] = probe.payloads[2]
     /\ HasSender(1)
     /\ probe.results[1].called /\ probe.results[2].called) =>
        LET a == probe.results[1].msg
            b == probe.results[2].msg
        IN  /\ Normalized(1) /\ Normalized(2)
            /\ [a EXCEPT !.cmid = << >>] = [b EXCEPT !.cmid = << >>]
            /\ IF OmitsMessageID(1)
               THEN a.cmid # b.cmid /\ a.cmid # << >> /\ b.cmid # << >>
               ELSE a.cmid = b.cmid

\* C29: Send of either adapter never returns a function error; a failure is
\* a SendResult with Success = false and Error set; with an empty
\* page_access_token (Facebook) or an empty recipient (mock) it returns such
\* a result without attempting the delivery and without recording the
\* message as sent.
C29_FailureInSendResult ==
    [][probe.pc = "send" =>
         LET out == probe'.out
             unmet == IF probe.type = "facebook"
                      THEN probe.credentials # "token"
                      ELSE probe.msg.to = ""
         IN  /\ ~out.fnErr
             /\ ~out.success => out.error
             /\ (probe.type = "facebook" /\ probe.http \in {"refused", "fail"})
                   => ~out.success
             /\ unmet =>
                   /\ ~out.success
                   /\ out.error
                   /\ ~out.attempted
                   /\ ~out.handed
                   /\ probe'.sentMessages = probe.sentMessages]_vars

\* The Facebook adapter, given credentials without the token, has refused a
\* message the Graph API would have taken.
C29_Witness ==
    /\ probe.pc = "returned"
    /\ probe.type = "facebook"
    /\ probe.credentials = "none"
    /\ probe.http = "ok"
    /\ probe.msg.to = "u1"
    /\ ~probe.out.success
    /\ probe.out.error
    /\ ~probe.out.attempted

\* --------------------------------------------------------- detached tasks
\* ProcessInbound starts two goroutines and goes on: the realtime publication
\* of the inbound message, after step 4 when a publisher is configured, and
\* the profile enrichment, after the participant step of a Facebook delivery
\* whose participant has no name yet. Here probe holds what they leave
\* behind: each task's state, the events published, and the name column of
\* the participants with the deliveries that had read it empty before it was
\* first written.
NoName == [given |-> FALSE, readEmpty |-> {}]

InitDetached ==
    /\ env = [calls |-> MaxCalls, overlap |-> FALSE, senders |-> 1,
              kinds |-> {PlainText},
              contents |-> {<<"H", "i">>, <<"a", "g", "e", "n", "t">>},
              types |-> Registered, incidents |-> MaxIncidents,
              failures |-> TRUE, agent |-> {"close"}]
    /\ Fresh
    /\ \E publisher \in BOOLEAN :
         probe = [pc |-> "detached", publisher |-> publisher,
                  publish |-> [d \in 1..MaxCalls |-> "pending"],
                  profile |-> [d \in 1..MaxCalls |-> "pending"],
                  events |-> << >>,
                  runs |-> [d \in 1..MaxCalls |-> [publish |-> 0, profile |-> 0]],
                  names |-> [p \in 1..MaxCalls |-> NoName]]

\* Delivery d has got its participant from FindOrCreate.
HasParticipant(d) ==
    /\ calls[d].pc \notin {"idle", "participant_find", "participant_create"}
    /\ calls[d].result.participantID # 0

\* ProcessInbound step 5 of delivery d has started the publication.
PublishStarted(d) ==
    /\ probe.publisher
    /\ calls[d].pc = "bot" \/ PastBot(d)

\* findOrCreateParticipant of delivery d has started the enrichment: the
\* channel is Facebook and the participant it got had no name.
ProfileStarted(d) ==
    /\ calls[d].in.type = "facebook"
    /\ HasParticipant(d)
    /\ LET name == probe.names[calls[d].result.participantID]
       IN  ~name.given \/ d \in name.readEmpty

\* A task that stays pending when it fails, to be run again.
Retried(state, o) == IF o = "ok" THEN "ok" ELSE state

\* A task ends: done, or failed with the error logged.
Settled(state, o) == IF o = "ok" THEN "ok" ELSE "failed"

PipelineUntouched ==
    UNCHANGED <<env, participants, conversations, messages, hits, sent,
                calls, agent, faults, agentOps, handed>>

\* The publication goroutine of delivery d runs to its end.
PublishTask(d) ==
    /\ probe.pc = "detached"
    /\ PublishStarted(d)
    /\ probe.publish[d] = "pending"
    /\ \E o \in {"ok", "fail"} :
         probe' = [probe EXCEPT
                     !.publish[d] = Settled(@, o),
                     !.runs[d].publish = @ + 1,
                     !.events = IF o = "ok"
                                THEN Append(@, [message |-> calls[d].result.messageID,
                                                conversation |-> calls[d].result.conversationID])
                                ELSE @]
    /\ PipelineUntouched

\* fetchAndUpdateFBProfile of delivery d runs to its end: any of its steps
\* may fail, and the last one writes the participant's name.
ProfileTask(d) ==
    /\ probe.pc = "detached"
    /\ ProfileStarted(d)
    /\ probe.profile[d] = "pending"
    /\ \E o \in {"ok", "fail"} :
         LET pid == calls[d].result.participantID
             name == probe.names[pid]
         IN  probe' = [probe EXCEPT
                 !.profile[d] = Settled(@, o),
                 !.runs[d].profile = @ + 1,
                 !.names[pid] =
                    IF o = "ok" /\ ~name.given
                    THEN [given |-> TRUE,
                          readEmpty |-> {e \in DOMAIN calls :
                                           /\ HasParticipant(e)
                                           /\ calls[e].result.participantID = pid}]
                    ELSE name]
    /\ PipelineUntouched

\* The next step of ProcessInbound for delivery d.
PipelineStep(d) ==
    \/ ParticipantFind(d)
    \/ ParticipantCreate(d)
    \/ ConversationFind(d)
    \/ ConversationCreate(d)
    \/ SaveMessage(d)
    \/ UpdateConversationLastMessage(d)
    \/ Respond(d)
    \/ PauseOnHandoff(d)
    \/ SaveBotMessage(d)
    \/ SendReply(d)
    \/ BackfillMessageID(d)

NextDetached ==
    \/ Next
    \/ \E d \in DOMAIN calls : PublishTask(d)
    \/ \E d \in DOMAIN calls : ProfileTask(d)

SpecDetached == InitDetached /\ [][NextDetached]_vars

MaxRequests == 2

\* Deliveries and the requests of the conversation endpoints (ToggleBot with
\* enabled false / true, PATCH with status "closed" / "open"), each run to
\* its end before the next begins, with no failure of the store.
InitSerial ==
    /\ env = [calls |-> MaxCalls, overlap |-> FALSE, senders |-> 1,
              kinds |-> {PlainText},
              contents |-> {<<"H", "i">>, <<"a", "g", "e", "n", "t">>},
              types |-> {"mock"}, incidents |-> MaxRequests,
              failures |-> FALSE,
              agent |-> {"pause", "resume", "close", "reopen"}]
    /\ Fresh
    /\ Pipeline

NextSerial ==
    \/ agent.pc = "idle" /\ \E d \in DOMAIN calls : Start(d)
    \/ \E d \in DOMAIN calls : PipelineStep(d)
    \/ /\ InFlight = {}
       /\ \E op \in AgentRequests, cid \in 1..Len(conversations) :
            AgentLoad(op, cid)
    \/ AgentSave

SpecSerial == InitSerial /\ [][NextSerial]_vars

\* C31: with deliveries and agent requests (close, reopen, bot pause, bot
\* resume) run one at a time, no participant ever has two conversations that
\* are both in an active status (open, pending, bot_paused).
C31_OneActiveSerially ==
    \A i, j \in 1..Len(conversations) :
        /\ i # j
        /\ conversations[i].participant = conversations[j].participant
        /\ conversations[i].status \in ActiveStatuses
        => conversations[j].status \notin ActiveStatuses

\* C32: the adapter's Send is called for a bot reply only once the
\* bot-authored outbound message of that reply is stored: a delivery that
\* has called Send has a stored bot message of its conversation with the
\* content of the reply.
C32_StoredBeforeSent ==
    \A d \in DOMAIN calls :
        calls[d].sends > 0 =>
            \E i \in RowsOf(calls[d].conv.id, "out") :
                /\ messages[i].senderType = "bot"
                /\ messages[i].content = calls[d].bot.response.content

\* ------------------------------------------- deliveries with attachments
\* Deliveries of one sender over the mock channel, as text or as a picture
\* with an attachment, with failures of the store.
InitInbound ==
    /\ env = [calls |-> MaxCalls, overlap |-> FALSE, senders |-> 1,
              kinds |-> {PlainText, Picture},
              contents |-> {<<"H", "i">>, <<"a", "g", "e", "n", "t">>},
              types |-> {"mock"}, incidents |-> MaxIncidents,
              failures |-> TRUE, agent |-> {"close"}]
    /\ Fresh
    /\ Pipeline

SpecInbound == InitInbound /\ [][Next]_vars

\* C33: a ProcessInbound call that returns a result has stored exactly one
\* inbound message: the message named in its result is a customer-authored
\* inbound row of the conversation named in the result with the delivery's
\* content, content type, attachments and provider message id; every new
\* inbound row is the one message of one call, a call's message never
\* changes, and it is stored before any bot-authored message of that call.
C33_OneInboundMessageFirst ==
    [][ /\ \A d \in DOMAIN calls :
             LET r == calls'[d].result
                 in == calls'[d].in
             IN  /\ calls'[d].pc = "done" /\ calls'[d].err = "" =>
                     /\ r.messageID \in 1..Len(messages')
                     /\ LET m == messages'[r.messageID]
                        IN  /\ m.conv = r.conversationID
                            /\ r.conversationID # 0
                            /\ m.direction = "in"
                            /\ m.senderType = "customer"
                            /\ m.content = in.content
                            /\ m.contentType = in.contentType
                            /\ m.attachments = in.attachments
                            /\ m.cmid = in.cmid
                 /\ calls[d].result.messageID # 0 =>
                     r.messageID = calls[d].result.messageID
                 /\ calls'[d].out # 0 =>
                     r.messageID # 0 /\ r.messageID < calls'[d].out
        /\ \A i \in 1..Len(messages) :
             messages[i].direction = "in" => messages'[i] = messages[i]
        /\ \A i \in (Len(messages) + 1)..Len(messages') :
             messages'[i].direction = "in" =>
                 Cardinality({d \in DOMAIN calls :
                                /\ calls[d].result.messageID = 0
                                /\ calls'[d].result.messageID = i}) = 1 ]_vars

\* A delivery of a picture has returned its result after a reply was stored
\* and sent.
C33_Witness ==
    \E d \in DOMAIN calls :
        /\ Done(d)
        /\ calls[d].err = ""
        /\ calls[d].in.contentType = "image"
        /\ calls[d].in.attachments # << >>
        /\ calls[d].out # 0
        /\ calls[d].result.botReplied

\* C34: in the result a ProcessInbound call returns, BotHandoff is true
\* exactly when the call stored its conversation as bot_paused through a bot
\* handoff, and BotReplied is true exactly when the adapter's Send reported
\* success for the call's reply, ResponseSent then being that reply.
C34_ResultFlags ==
    \A d \in DOMAIN calls :
        Done(d) /\ calls[d].err = "" =>
            LET r == calls[d].result
            IN  /\ r.botHandoff <=>
                      (calls[d].handoff /\ "pause" \notin calls[d].failed)
                /\ r.botReplied <=>
                      (calls[d].sends > 0 /\ "send" \notin calls[d].failed)
                /\ r.responseSent = IF r.botReplied THEN calls[d].bot.response
                                    ELSE NoOutbound

\* --------------------------------------- concurrent calls of the responder
\* Calls of responder.Process that run concurrently, each in two steps: the
\* rules are loaded (with their hit counts as stored then) and matched, then
\* the hit count of the matched rule is incremented.
IdleProcess ==
    [pc |-> "idle", content |-> Empty, loaded |-> << >>, rule |-> 0, inc |-> ""]

InitHits ==
    /\ NoDeliveries
    /\ probe = [pc |-> "hits",
                table |-> [k \in 1..Len(Rules) |-> 0],
                g |-> [p \in Goroutines |-> IdleProcess]]

\* An increment that stores the hit count of the loaded Rule plus one.
IncrementLoaded(table, k, loaded) == [table EXCEPT ![k] = loaded + 1]

\* ruleRepo.IncrementHitCount: one UPDATE ... SET hit_count = hit_count + 1
\* WHERE id = k; the count in the caller's loaded Rule is not used.
IncrementHitCount(table, k, loaded) == [table EXCEPT ![k] = @ + 1]

\* responder.Process steps 1 and 2: FindActiveByWorkspace, then Match.
LoadAndMatch(p) ==
    /\ probe.pc = "hits"
    /\ probe.g[p].pc = "idle"
    /\ \E content \in Contents :
         LET m == Match(ActiveRules, content, Noon)
         IN  probe' = [probe EXCEPT
                 !.g[p] = [pc |-> IF m.matched THEN "matched" ELSE "done",
                           content |-> content,
                           loaded |-> probe.table,
                           rule |-> IF m.matched THEN RuleID(m.rule) ELSE 0,
                           inc |-> ""]]
    /\ Untouched

\* responder.Process step 3: the increment, whose failure is only logged.
Increment(p) ==
    /\ probe.pc = "hits"
    /\ probe.g[p].pc = "matched"
    /\ \E o \in {"ok", "fail"} :
         LET k == probe.g[p].rule
         IN  probe' = [probe EXCEPT
                 !.table = IF o = "ok"
                           THEN IncrementHitCount(@, k, probe.g[p].loaded[k])
                           ELSE @,
                 !.g[p].pc = "done",
                 !.g[p].inc = o]
    /\ Untouched

NextHits ==
    \/ \E p \in Goroutines : LoadAndMatch(p)
    \/ \E p \in Goroutines : Increment(p)

SpecHits == InitHits /\ [][NextHits]_vars

\* C35: with calls of Process running concurrently, the stored hit count of
\* every rule is the number of calls that matched it and whose increment
\* succeeded: no increment is lost.
C35_NoLostIncrement ==
    probe.pc = "hits" =>
        \A k \in 1..Len(Rules) :
            probe.table[k] =
                Cardinality({p \in Goroutines :
                               /\ probe.g[p].pc = "done"
                               /\ probe.g[p].rule = k
                               /\ probe.g[p].inc = "ok"})

\* Two calls loaded the rules before either incremented, matched the same
\* rule, and both increments succeeded: its hit count is two.
C35_Witness ==
    /\ probe.pc = "hits"
    /\ \E p, q \in Goroutines, k \in 1..Len(Rules) :
         /\ p # q
         /\ probe.g[p].pc = "done" /\ probe.g[q].pc = "done"
         /\ probe.g[p].rule = k /\ probe.g[q].rule = k
         /\ probe.g[p].inc = "ok" /\ probe.g[q].inc = "ok"
         /\ probe.g[p].loaded[k] = 0 /\ probe.g[q].loaded[k] = 0
         /\ probe.table[k] = 2

\* Delivery e is the retry of delivery d: it carries the same message
\* (whatever the time it is stamped with), began
\* next after d had returned an error from the creation of the conversation
\* or of the inbound message, that failure is the only one so far, and the
\* conversation d had resolved has not been closed since.
C36Case(d, e) ==
    /\ Done(d) /\ Done(e)
    /\ calls[e].after = calls[d].after \cup {d}
    /\ [calls[e].in EXCEPT !.at = 0] = [calls[d].in EXCEPT !.at = 0]
    /\ calls[d].err \in {"conversation", "message"}
    /\ faults = 1
    /\ calls[d].conv.id # 0 => calls[d].live

\* C36: after a call that failed at the creation of the conversation or of
\* the inbound message, the participant (and conversation) it had resolved
\* are still stored, and the retry returns that participant with
\* ParticipantCreated = false, that conversation with ConversationCreated =
\* false when there was one, and a result whose message is the one inbound
\* message the two calls stored.
C36_RetryAfterFailure ==
    \A d, e \in DOMAIN calls :
        C36Case(d, e) =>
            LET r == calls[e].result
                pid == calls[d].pid
                cid == calls[d].conv.id
            IN  /\ calls[e].err = ""
                /\ pid \in ParticipantsOf(calls[d].in.sender)
                /\ r.participantID = pid
                /\ ~r.participantCreated
                /\ r.conversationID \in ConversationsOf(pid)
                /\ cid # 0 => r.conversationID = cid /\ ~r.conversationCreated
                /\ calls[d].result.messageID = 0
                /\ r.messageID \in RowsOf(r.conversationID, "in")
                /\ messages[r.messageID].cmid = calls[e].in.cmid
                /\ Cardinality({i \in 1..Len(messages) :
                                  messages[i].direction = "in"})
                     = Cardinality({c \in DOMAIN calls :
                                      calls[c].result.messageID # 0})

\* The retry of a first delivery that had created its participant and its
\* conversation and failed to store its message has returned.
C36_Witness ==
    \E d, e \in DOMAIN calls :
        /\ C36Case(d, e)
        /\ calls[d].err = "message"
        /\ calls[d].after = {}
        /\ calls[e].result.messageID # 0

\* ------------------------------------------- UpdateLastMessage on its own
\* Contents by their length in characters, made of ASCII characters, of
\* three-byte characters, or of one three-byte character ahead of ASCII ones.
PreviewLengths == {0, 1, 166, 167, 497, 499, 500, 501, 600}
PreviewPatterns == {"ascii", "wide", "mixed"}
PreviewText(n, pattern) ==
    [i \in 1..n |-> IF pattern = "wide" \/ (pattern = "mixed" /\ i = 1)
                    THEN Wide ELSE "a"]

InitPreview ==
    /\ NoDeliveries
    /\ \E n \in PreviewLengths, pattern \in PreviewPatterns, at \in {1, 2} :
         LET c == [NoConv EXCEPT !.id = 1, !.participant = 1,
                                 !.status = "open",
                                 !.preview = <<"o", "l", "d">>]
         IN  probe = [pc |-> "preview", content |-> PreviewText(n, pattern),
                      at |-> at, conv |-> c, stored |-> c]

\* updateConversationLastMessage: UpdateLastMessage on the conversation in
\* memory, then conversationRepo.Update, which may fail.
CallUpdateLastMessage ==
    /\ probe.pc = "preview"
    /\ \E o \in {"ok", "fail"} :
         LET c == UpdateLastMessage(probe.conv, probe.content, probe.at)
         IN  probe' = [probe EXCEPT !.pc = "returned", !.conv = c,
                                    !.stored = IF o = "ok" THEN c ELSE @]
    /\ Untouched

SpecPreview == InitPreview /\ [][CallUpdateLastMessage]_vars

\* C37: after UpdateLastMessage(content, at) the conversation's LastMessageAt
\* is at and its preview is the content when the content has at most 500
\* characters, and otherwise the first 497 characters of the content
\* followed by "..."; the preview never has more than 500 characters.
C37_PreviewByCharacters ==
    probe.pc = "returned" =>
        LET p == Runes(probe.conv.preview)
        IN  /\ probe.conv.lastAt = probe.at
            /\ Len(p) <= PreviewMax
            /\ p = IF Len(probe.content) <= PreviewMax THEN probe.content
                   ELSE SubSeq(probe.content, 1, PreviewMax - 3)
                            \o <<".", ".", ".">>

\* ------------------------------------------------------- refresh tokens
\* Calls of the auth service made in one behaviour, and seconds that pass.
MaxAuthCalls == 4
MaxSecond == 2

\* JWTService.GenerateTokenPair: the refresh token is an HS256 JWT of the
\* user's claims with IssuedAt and ExpiresAt in whole seconds and no token
\* id, so for one user it is determined by the second it is made in.
RefreshTokenAt(second) == second
Forged == 0

\* hashToken: the hex SHA-256 of the token; nil when the column is NULL.
NoHash == << >>
HashToken(t) == <<"sha256", t>>

IdleAuth == [pc |-> "idle", token |-> Forged, guarded |-> FALSE]

\* One user, not logged in; won[t] counts the RefreshTokens(t) calls that
\* returned tokens, revoked says that a RevokeRefreshToken has succeeded and
\* no Login has since, late that a RefreshTokens begun in that time succeeded.
InitAuth ==
    /\ NoDeliveries
    /\ probe = [pc |-> "auth", hash |-> NoHash, now |-> 1, issued |-> {},
                made |-> 0, revoked |-> FALSE, late |-> FALSE,
                won |-> [t \in 1..MaxSecond |-> 0],
                g |-> [p \in Goroutines |-> IdleAuth]]

Tick ==
    /\ probe.pc = "auth"
    /\ probe.now < MaxSecond
    /\ probe' = [probe EXCEPT !.now = @ + 1]
    /\ Untouched

\* Login up to the tokens: FindByEmail and CheckPassword; a wrong password
\* ends it with ErrInvalidCredentials.
LoginCheck(p) ==
    /\ probe.pc = "auth"
    /\ probe.g[p].pc = "idle"
    /\ probe.made < MaxAuthCalls
    /\ \E password \in {"right", "wrong"} :
         probe' = [probe EXCEPT
                     !.made = @ + 1,
                     !.g[p].pc = IF password = "right" THEN "login" ELSE "idle"]
    /\ Untouched

\* Login from GenerateTokenPair on: the hash of the new refresh token is
\* saved with the user; a failed save is only logged and the tokens are
\* returned all the same.
LoginSave(p) ==
    /\ probe.pc = "auth"
    /\ probe.g[p].pc = "login"
    /\ \E o \in {"ok", "fail"} :
         LET t == RefreshTokenAt(probe.now)
         IN  probe' = [probe EXCEPT
                 !.hash = IF o = "ok" THEN HashToken(t) ELSE @,
                 !.issued = @ \cup {t},
                 !.revoked = FALSE,
                 !.g = [q \in Goroutines |->
                          IF q = p THEN IdleAuth
                          ELSE [probe.g[q] EXCEPT !.guarded = FALSE]]]
    /\ Untouched

\* RefreshTokens(t) up to the comparison of the hashes: a token the service
\* did not sign, and a token whose hash is not the stored one, end it with
\* ErrInvalidToken.
RefreshCheck(p) ==
    /\ probe.pc = "auth"
    /\ probe.g[p].pc = "idle"
    /\ probe.made < MaxAuthCalls
    /\ \E t \in probe.issued \cup {Forged} :
         probe' = [probe EXCEPT
                     !.made = @ + 1,
                     !.g[p] = IF t # Forged /\ probe.hash = HashToken(t)
                              THEN [pc |-> "refresh", token |-> t,
                                    guarded |-> probe.revoked]
                              ELSE IdleAuth]
    /\ Untouched

\* RefreshTokens from GenerateTokenPair on: the hash of the new refresh token
\* is saved over the stored one; a failed save is only logged.
RefreshSave(p) ==
    /\ probe.pc = "auth"
    /\ probe.g[p].pc = "refresh"
    /\ \E o \in {"ok", "fail"} :
         LET t == RefreshTokenAt(probe.now)
         IN  probe' = [probe EXCEPT
                 !.hash = IF o = "ok" THEN HashToken(t) ELSE @,
                 !.issued = @ \cup {t},
                 !.won[probe.g[p].token] = @ + 1,
                 !.late = @ \/ probe.g[p].guarded,
                 !.g[p] = IdleAuth]
    /\ Untouched

\* RevokeRefreshToken, FindByID.
RevokeLoad(p) ==
    /\ probe.pc = "auth"
    /\ probe.g[p].pc = "idle"
    /\ probe.made < MaxAuthCalls
    /\ probe' = [probe EXCEPT !.made = @ + 1, !.g[p].pc = "revoke"]
    /\ Untouched

\* RevokeRefreshToken, the save of the user with no hash: it succeeds, or
\* fails with an error.
RevokeSave(p) ==
    /\ probe.pc = "auth"
    /\ probe.g[p].pc = "revoke"
    /\ \E o \in {"ok", "fail"} :
         probe' = [probe EXCEPT
                     !.hash = IF o = "ok" THEN NoHash ELSE @,
                     !.revoked = @ \/ o = "ok",
                     !.g[p] = IdleAuth]
    /\ Untouched

NextAuth ==
    \/ Tick
    \/ \E p \in Goroutines : LoginCheck(p)
    \/ \E p \in Goroutines : LoginSave(p)
    \/ \E p \in Goroutines : RefreshCheck(p)
    \/ \E p \in Goroutines : RefreshSave(p)
    \/ \E p \in Goroutines : RevokeLoad(p)
    \/ \E p \in Goroutines : RevokeSave(p)

SpecAuth == InitAuth /\ [][NextAuth]_vars

\* C38: a refresh token is good for one RefreshTokens call, concurrent calls
\* included, and no RefreshTokens call begun after a successful
\* RevokeRefreshToken and before the next Login succeeds.
C38_SingleUseRevocable ==
    probe.pc = "auth" =>
        /\ \A t \in 1..MaxSecond : probe.won[t] <= 1
        /\ ~probe.late

\* ------------------------------------------ the mock channel's sent log
\* Sends made in one behaviour on the one MockChannel of the registry.
MaxSends == 4

IdleSend == [pc |-> "idle", msg |-> NoOutbound, n |-> 0, read |-> << >>]

\* returned lists the Sends that returned Success = true, in the order they
\* returned; refused counts those rejected.
InitMockLog ==
    /\ NoDeliveries
    /\ probe = [pc |-> "mocklog", sentMessages |-> << >>, made |-> 0,
                returned |-> << >>, refused |-> 0,
                g |-> [p \in Goroutines |-> IdleSend]]

\* MockChannel.Send up to the append: an empty recipient is rejected;
\* otherwise append reads the slice m.sentMessages. The field is read and
\* written with no lock, and the deliveries that call Send run in separate
\* goroutines.
SendBegin(p) ==
    /\ probe.pc = "mocklog"
    /\ probe.g[p].pc = "idle"
    /\ probe.made < MaxSends
    /\ \E to \in {"", "u1"} :
         LET msg == [NoOutbound EXCEPT !.to = to, !.contentType = "text"]
         IN  probe' = [probe EXCEPT
                 !.made = @ + 1,
                 !.refused = IF to = "" THEN @ + 1 ELSE @,
                 !.g[p] = IF to = "" THEN IdleSend
                          ELSE [pc |-> "append", msg |-> msg,
                                n |-> probe.made + 1,
                                read |-> probe.sentMessages]]
    /\ Untouched

\* m.sentMessages = append(m.sentMessages, msg), the store of the slice that
\* was read with the message added, and the return of Success = true.
SendAppend(p) ==
    /\ probe.pc = "mocklog"
    /\ probe.g[p].pc = "append"
    /\ probe' = [probe EXCEPT
                   !.sentMessages = Append(probe.g[p].read,
                                           [msg |-> probe.g[p].msg,
                                            n |-> probe.g[p].n]),
                   !.returned = Append(@, probe.g[p].n),
                   !.g[p] = IdleSend]
    /\ Untouched

NextMockLog ==
    \/ \E p \in Goroutines : SendBegin(p)
    \/ \E p \in Goroutines : SendAppend(p)

SpecMockLog == InitMockLog /\ [][NextMockLog]_vars

\* C39: the sent-message log of the mock channel holds the messages of the
\* Sends that returned Success = true, each once and in the order the Sends
\* returned, and nothing of a Send rejected for an empty recipient, also
\* when Sends of different deliveries run concurrently.
C39_SentLogComplete ==
    probe.pc = "mocklog" =>
        /\ [i \in 1..Len(probe.sentMessages) |-> probe.sentMessages[i].n]
             = probe.returned
        /\ \A i \in 1..Len(probe.sentMessages) :
             probe.sentMessages[i].msg.to # ""

\* ------------------------------------------------- webhook event retries
\* The largest retry limit and the largest retry count an event starts with.
MaxRetries == 2

WebhookStatuses == {"pending", "processing", "processed", "failed"}

\* WebhookEvent methods (internal/models).
MarkProcessing(e) == [e EXCEPT !.status = "processing"]
MarkProcessed(e, now) ==
    [e EXCEPT !.status = "processed", !.processedAt = now]
MarkFailed(e, err) ==
    [e EXCEPT !.status = "failed", !.errorMessage = err,
              !.retryCount = @ + 1]
\* A retry test that lets an event at the limit through.
CanRetryAtLimit(e, maxRetries) ==
    e.status = "failed" /\ e.retryCount <= maxRetries
CanRetry(e, maxRetries) ==
    e.status = "failed" /\ e.retryCount < maxRetries
ResetForRetry(e) == [e EXCEPT !.status = "pending", !.errorMessage = ""]

\* An event as stored, in any status and with any retry count, and a retry
\* limit; op is the method called last, resets and failures count the calls
\* of ResetForRetry and of MarkFailed made by the loop.
InitWebhook ==
    /\ NoDeliveries
    /\ \E st \in WebhookStatuses, n \in 0..MaxRetries, max \in 0..MaxRetries :
         probe = [pc |-> "webhook", max |-> max, op |-> "",
                  resets |-> 0, failures |-> 0,
                  event |-> [status |-> st, retryCount |-> n,
                             errorMessage |-> IF st = "failed" THEN "e1"
                                              ELSE "",
                             processedAt |-> IF st = "processed" THEN 5
                                             ELSE 0]]

\* The retry loop: ResetForRetry only when CanRetry(max) holds ...
CallResetForRetry ==
    /\ probe.pc = "webhook"
    /\ CanRetry(probe.event, probe.max)
    /\ probe' = [probe EXCEPT !.event = ResetForRetry(@),
                              !.op = "ResetForRetry", !.resets = @ + 1]
    /\ Untouched

\* ... followed by MarkProcessing ...
CallMarkProcessing ==
    /\ probe.pc = "webhook"
    /\ probe.event.status = "pending"
    /\ probe' = [probe EXCEPT !.event = MarkProcessing(@),
                              !.op = "MarkProcessing"]
    /\ Untouched

\* ... and then MarkProcessed ...
CallMarkProcessed ==
    /\ probe.pc = "webhook"
    /\ probe.event.status = "processing"
    /\ \E now \in ClockReadings :
         probe' = [probe EXCEPT !.event = MarkProcessed(@, now),
                                !.op = "MarkProcessed"]
    /\ Untouched

\* ... or MarkFailed.
CallMarkFailed ==
    /\ probe.pc = "webhook"
    /\ probe.event.status = "processing"
    /\ \E err \in {"e1", "e2"} :
         probe' = [probe EXCEPT !.event = MarkFailed(@, err),
                                !.op = "MarkFailed", !.failures = @ + 1]
    /\ Untouched

NextWebhook ==
    \/ CallResetForRetry
    \/ CallMarkProcessing
    \/ CallMarkProcessed
    \/ CallMarkFailed

SpecWebhook == InitWebhook /\ [][NextWebhook]_vars

\* C40: RetryCount grows by one on each MarkFailed and is changed by no
\* other method; an event may be retried exactly when its status is failed
\* and its RetryCount is below the limit; so the retry loop makes at most
\* max resets and, after its first reset, at most max failures, and an
\* event marked processed is never reset, processed again or failed.
C40_RetryBounded ==
    [][ probe.pc = "webhook" /\ probe' # probe =>
          /\ probe'.event.retryCount =
                IF probe'.op = "MarkFailed"
                THEN probe.event.retryCount + 1
                ELSE probe.event.retryCount
          /\ probe'.op = "ResetForRetry" =>
                /\ probe.event.status = "failed"
                /\ probe.event.retryCount < probe.max
          /\ (probe.event.status = "failed"
                /\ probe.event.retryCount < probe.max) =>
                probe'.op = "ResetForRetry"
          /\ probe'.resets <= probe.max
          /\ probe'.resets > 0 => probe'.event.retryCount <= probe.max
          /\ probe.event.status # "processed" ]_vars

\* An event that began pending with no retry has failed as often as the
\* limit of two allows and cannot be retried any more.
C40_Witness ==
    /\ probe.pc = "webhook"
    /\ probe.max = 2
    /\ probe.failures = 2
    /\ probe.resets = 1
    /\ probe.event.status = "failed"
    /\ probe.event.retryCount = 2
    /\ ~CanRetry(probe.event, probe.max)

=============================================================================
